---- MODULE Spec2Model ----
(***************************************************************************)
(* The beneficiary claim tool of the Inheritor repository                  *)
(* (src/Manuals/CheckClaimable.md, second script, lines 911-1681):         *)
(* claimInheritance and the functions it calls.  Strings are sequences of  *)
(* one-character strings, buffers are sequences of byte values or, where   *)
(* only the length matters, a length.                                      *)
(***************************************************************************)
EXTENDS Integers, Sequences, FiniteSets, TLC

(***************************************************************************)
(* Bounds of the model.                                                    *)
(***************************************************************************)
\* number of bytes of the on-chain locator (bytes32 in the contract)
LocatorBytes == 2

\* byte values a locator is built from: 0x00, 0x01, 0xfb
ByteVals == {0, 1, 251}

(***************************************************************************)
(* Strings and encodings.                                                  *)
(***************************************************************************)
HexDigits ==
  <<"0","1","2","3","4","5","6","7","8","9","a","b","c","d","e","f">>

Base64Alphabet ==
  <<"A","B","C","D","E","F","G","H","I","J","K","L","M","N","O","P",
    "Q","R","S","T","U","V","W","X","Y","Z","a","b","c","d","e","f",
    "g","h","i","j","k","l","m","n","o","p","q","r","s","t","u","v",
    "w","x","y","z","0","1","2","3","4","5","6","7","8","9","+","/">>

\* value of a hex digit character, -1 when it is none
HexVal(c) ==
  IF \E i \in 1..16 : HexDigits[i] = c
    THEN (CHOOSE i \in 1..16 : HexDigits[i] = c) - 1
    ELSE -1

\* ethers.hexlify(bytes): "0x" followed by two lowercase digits per byte
RECURSIVE HexOfBytes(_)
HexOfBytes(b) ==
  IF b = <<>> THEN <<>>
  ELSE <<HexDigits[(Head(b) \div 16) + 1], HexDigits[(Head(b) % 16) + 1]>>
         \o HexOfBytes(Tail(b))

Hexlify(b) == <<"0", "x">> \o HexOfBytes(b)

\* s.startsWith('0x')
StartsWith0x(s) == Len(s) >= 2 /\ s[1] = "0" /\ s[2] = "x"

\* transactionId.startsWith('0x') ? transactionId.slice(2) : transactionId
CleanHex(s) == IF StartsWith0x(s) THEN SubSeq(s, 3, Len(s)) ELSE s

\* Buffer.from(s, 'hex'): whole digit pairs, stopping at the first pair
\* that is not hex; a trailing single digit is dropped
RECURSIVE BufferFromHex(_)
BufferFromHex(s) ==
  IF Len(s) < 2 \/ HexVal(s[1]) < 0 \/ HexVal(s[2]) < 0 THEN <<>>
  ELSE <<HexVal(s[1]) * 16 + HexVal(s[2])>>
         \o BufferFromHex(SubSeq(s, 3, Len(s)))

\* bytes.toString('base64'): standard alphabet, padded with '='
RECURSIVE ToBase64(_)
ToBase64(b) ==
  IF Len(b) = 0 THEN <<>>
  ELSE IF Len(b) = 1 THEN
    << Base64Alphabet[(b[1] \div 4) + 1],
       Base64Alphabet[((b[1] % 4) * 16) + 1], "=", "=" >>
  ELSE IF Len(b) = 2 THEN
    << Base64Alphabet[(b[1] \div 4) + 1],
       Base64Alphabet[((b[1] % 4) * 16 + (b[2] \div 16)) + 1],
       Base64Alphabet[((b[2] % 16) * 4) + 1], "=" >>
  ELSE
    << Base64Alphabet[(b[1] \div 4) + 1],
       Base64Alphabet[((b[1] % 4) * 16 + (b[2] \div 16)) + 1],
       Base64Alphabet[((b[2] % 16) * 4 + (b[3] \div 64)) + 1],
       Base64Alphabet[(b[3] % 64) + 1] >>
      \o ToBase64(SubSeq(b, 4, Len(b)))

\* base64.replace(/\+/g,'-').replace(/\//g,'_').replace(/=/g,'')
RECURSIVE ToBase64Url(_)
ToBase64Url(s) ==
  IF s = <<>> THEN <<>>
  ELSE (IF Head(s) = "+" THEN <<"-">>
        ELSE IF Head(s) = "/" THEN <<"_">>
        ELSE IF Head(s) = "=" THEN <<>>
        ELSE <<Head(s)>>) \o ToBase64Url(Tail(s))

\* a replacement that removes leading '00' pairs, i.e. whole zero bytes
RECURSIVE StripLeadingZeroPairs(_)
StripLeadingZeroPairs(s) ==
  IF Len(s) >= 2 /\ s[1] = "0" /\ s[2] = "0"
    THEN StripLeadingZeroPairs(SubSeq(s, 3, Len(s)))
    ELSE s

\* s.replace(/^0+/, ''): every leading '0' character is removed
RECURSIVE StripLeadingZeros(_)
StripLeadingZeros(s) ==
  IF s # <<>> /\ Head(s) = "0" THEN StripLeadingZeros(Tail(s)) ELSE s

\* possibleIds with the first two formats exchanged
PossibleIdsSwapped(transactionId) ==
  LET cleanHexId == CleanHex(transactionId)
      bytes      == BufferFromHex(cleanHexId)
      base64url  == ToBase64Url(ToBase64(bytes))
  IN  << base64url, cleanHexId, StripLeadingZeros(cleanHexId) >>

\* the list possibleIds of retrieveAssetFromArweave
PossibleIds(transactionId) ==
  LET cleanHexId == CleanHex(transactionId)
      bytes      == BufferFromHex(cleanHexId)
      base64url  == ToBase64Url(ToBase64(bytes))
  IN  << cleanHexId, base64url, StripLeadingZeros(cleanHexId) >>

(***************************************************************************)
(* Tag list of a transaction's metadata.                                   *)
(***************************************************************************)
\* a tag whose name or value is not a string: Buffer.from throws on it
BadTag == [name |-> "<undefined>", value |-> <<>>]

\* contentType.split('/').pop() || 'bin', the content type being given by
\* its '/'-separated segments
ExtensionOfContentType(segments) ==
  IF segments[Len(segments)] = "" THEN "bin" ELSE segments[Len(segments)]

\* the loop over tags (lines 1363-1376): the extension, or "<throw>" when
\* decoding a tag throws before a Content-Type tag was found
RECURSIVE FileExtensionOfTags(_)
FileExtensionOfTags(tags) ==
  IF tags = <<>> THEN "bin"
  ELSE IF Head(tags) = BadTag THEN "<throw>"
  ELSE IF Head(tags).name = "Content-Type"
    THEN ExtensionOfContentType(Head(tags).value)
  ELSE FileExtensionOfTags(Tail(tags))

(***************************************************************************)
(* decryptSymmetricKey.  A key string is [prefix, digits, ...]: whether it *)
(* starts with "0x" and how many hex digits follow.  encFor names the key  *)
(* pair the blob was encrypted for, pointOk whether its first 65 bytes are *)
(* a point of the curve.                                                   *)
(***************************************************************************)
\* length of the string in characters
StrLength(k) == k.digits + (IF k.prefix THEN 2 ELSE 0)

\* length of Buffer.from(<digits>, 'hex') after the prefix is removed
KeyBufferLength(k) == k.digits \div 2

\* a minimum that asks for one ciphertext byte only
minimumLengthOneByte == 65 + 32 + 12 + 1 + 16

minimumLength == 65 + 32 + 12 + 32 + 16

\* sub-ranges whose ciphertext starts at the nonce
BlobPartsShifted(n) ==
  [ ephemeralPublicKey |-> [from |-> 0,      to |-> 65],
    salt               |-> [from |-> 65,     to |-> 97],
    nonce              |-> [from |-> 97,     to |-> 109],
    ciphertext         |-> [from |-> 97,     to |-> n - 16],
    tag                |-> [from |-> n - 16, to |-> n] ]

\* a split whose salt ends one byte early
BlobPartsGap(n) ==
  [ ephemeralPublicKey |-> [from |-> 0,      to |-> 65],
    salt               |-> [from |-> 65,     to |-> 96],
    nonce              |-> [from |-> 97,     to |-> 109],
    ciphertext         |-> [from |-> 109,    to |-> n - 16],
    tag                |-> [from |-> n - 16, to |-> n] ]

\* the five sub-ranges [from, to) of a blob of n bytes (lines 1452-1456)
BlobParts(n) ==
  [ ephemeralPublicKey |-> [from |-> 0,      to |-> 65],
    salt               |-> [from |-> 65,     to |-> 97],
    nonce              |-> [from |-> 97,     to |-> 109],
    ciphertext         |-> [from |-> 109,    to |-> n - 16],
    tag                |-> [from |-> n - 16, to |-> n] ]

KeyFailure(msg, ops) == [ok |-> FALSE, error |-> msg, ops |-> ops, len |-> 0]

\* decryptSymmetricKey with the length check moved behind the key agreement
DecryptSymmetricKeyLateCheck(encryptedSymmetricKey, privateKey) ==
  IF StrLength(encryptedSymmetricKey) = 0 \/ StrLength(privateKey) = 0
    THEN KeyFailure("Missing required parameters", <<>>)
  ELSE IF KeyBufferLength(privateKey) # 32
    THEN KeyFailure("Invalid private key length", <<>>)
  ELSE IF ~encryptedSymmetricKey.pointOk
    THEN KeyFailure("Failed to compute ECDH secret", <<"ECDH">>)
  ELSE IF KeyBufferLength(encryptedSymmetricKey) < minimumLength
    THEN KeyFailure("Encrypted key too short", <<"ECDH">>)
  ELSE
    LET parts == BlobParts(KeyBufferLength(encryptedSymmetricKey)) IN
    IF encryptedSymmetricKey.encFor # privateKey.owner
      THEN KeyFailure("Unsupported state or unable to authenticate data",
                      <<"ECDH", "SHA256", "HKDF", "AES-GCM">>)
    ELSE [ok |-> TRUE, error |-> "",
          ops |-> <<"ECDH", "SHA256", "HKDF", "AES-GCM">>,
          len |-> parts.ciphertext.to - parts.ciphertext.from]

\* decryptSymmetricKey that returns the output of update() without calling
\* final(), so that a tag mismatch goes unnoticed
DecryptSymmetricKeyNoFinal(encryptedSymmetricKey, privateKey) ==
  IF StrLength(encryptedSymmetricKey) = 0 \/ StrLength(privateKey) = 0
    THEN KeyFailure("Missing required parameters", <<>>)
  ELSE IF KeyBufferLength(privateKey) # 32
    THEN KeyFailure("Invalid private key length", <<>>)
  ELSE IF KeyBufferLength(encryptedSymmetricKey) < minimumLength
    THEN KeyFailure("Encrypted key too short", <<>>)
  ELSE
    LET parts == BlobParts(KeyBufferLength(encryptedSymmetricKey)) IN
    IF ~encryptedSymmetricKey.pointOk
      THEN KeyFailure("Failed to compute ECDH secret", <<"ECDH">>)
    ELSE [ok |-> TRUE, error |-> "",
          ops |-> <<"ECDH", "SHA256", "HKDF", "AES-GCM">>,
          len |-> parts.ciphertext.to - parts.ciphertext.from]

DecryptSymmetricKey(encryptedSymmetricKey, privateKey) ==
  IF StrLength(encryptedSymmetricKey) = 0 \/ StrLength(privateKey) = 0
    THEN KeyFailure("Missing required parameters", <<>>)
  ELSE IF KeyBufferLength(privateKey) # 32
    THEN KeyFailure("Invalid private key length", <<>>)
  ELSE IF KeyBufferLength(encryptedSymmetricKey) < minimumLength
    THEN KeyFailure("Encrypted key too short", <<>>)
  ELSE
    LET parts == BlobParts(KeyBufferLength(encryptedSymmetricKey)) IN
    IF ~encryptedSymmetricKey.pointOk
      THEN KeyFailure("Failed to compute ECDH secret", <<"ECDH">>)
    ELSE IF encryptedSymmetricKey.encFor # privateKey.owner
      THEN KeyFailure("Unsupported state or unable to authenticate data",
                      <<"ECDH", "SHA256", "HKDF", "AES-GCM">>)
    ELSE [ok |-> TRUE, error |-> "",
          ops |-> <<"ECDH", "SHA256", "HKDF", "AES-GCM">>,
          len |-> parts.ciphertext.to - parts.ciphertext.from]

(***************************************************************************)
(* decryptAsset.  An encrypted asset is [len, intact]: its length and      *)
(* whether it is an untampered encryption under the recovered key.         *)
(***************************************************************************)
\* a split that takes only the last 12 bytes as the tag
AssetPartsShortTag(n) ==
  [ nonce      |-> [from |-> 0,      to |-> 12],
    tag        |-> [from |-> n - 12, to |-> n],
    ciphertext |-> [from |-> 12,     to |-> n - 16] ]

AssetParts(n) ==
  [ nonce      |-> [from |-> 0,      to |-> 12],
    tag        |-> [from |-> n - 16, to |-> n],
    ciphertext |-> [from |-> 12,     to |-> n - 16] ]

AssetFailure(msg, ops) ==
  [ok |-> FALSE, error |-> msg, ops |-> ops, len |-> 0]

\* decryptAsset that returns the output of update() without calling final()
DecryptAssetNoFinal(encryptedData, symmetricKey) ==
  IF encryptedData.len < 12 + 1 + 16
    THEN AssetFailure("Encrypted data too short", <<>>)
  ELSE
    LET parts == AssetParts(encryptedData.len) IN
    IF symmetricKey.len # 32
      THEN AssetFailure("Invalid key length", <<"AES-GCM">>)
    ELSE [ok |-> TRUE, error |-> "", ops |-> <<"AES-GCM">>,
          len |-> parts.ciphertext.to - parts.ciphertext.from]

\* decryptAsset whose length check admits an empty ciphertext
DecryptAssetEmptyCiphertext(encryptedData, symmetricKey) ==
  IF encryptedData.len < 12 + 16
    THEN AssetFailure("Encrypted data too short", <<>>)
  ELSE
    LET parts == AssetParts(encryptedData.len) IN
    IF symmetricKey.len # 32
      THEN AssetFailure("Invalid key length", <<"AES-GCM">>)
    ELSE IF ~encryptedData.intact
      THEN AssetFailure("Unsupported state or unable to authenticate data",
                        <<"AES-GCM">>)
    ELSE [ok |-> TRUE, error |-> "", ops |-> <<"AES-GCM">>,
          len |-> parts.ciphertext.to - parts.ciphertext.from]

\* decryptAsset that reports a failed tag check with an error of its own
DecryptAssetOwnError(encryptedData, symmetricKey) ==
  IF encryptedData.len < 12 + 1 + 16
    THEN AssetFailure("Encrypted data too short", <<>>)
  ELSE
    LET parts == AssetParts(encryptedData.len) IN
    IF symmetricKey.len # 32
      THEN AssetFailure("Invalid key length", <<"AES-GCM">>)
    ELSE IF ~encryptedData.intact
      THEN AssetFailure("Asset authentication failed", <<"AES-GCM">>)
    ELSE [ok |-> TRUE, error |-> "", ops |-> <<"AES-GCM">>,
          len |-> parts.ciphertext.to - parts.ciphertext.from]

DecryptAsset(encryptedData, symmetricKey) ==
  IF encryptedData.len < 12 + 1 + 16
    THEN AssetFailure("Encrypted data too short", <<>>)
  ELSE
    LET parts == AssetParts(encryptedData.len) IN
    IF symmetricKey.len # 32
      THEN AssetFailure("Invalid key length", <<"AES-GCM">>)
    ELSE IF ~encryptedData.intact
      THEN AssetFailure("Unsupported state or unable to authenticate data",
                        <<"AES-GCM">>)
    ELSE [ok |-> TRUE, error |-> "", ops |-> <<"AES-GCM">>,
          len |-> parts.ciphertext.to - parts.ciphertext.from]

(***************************************************************************)
(* saveFile.                                                               *)
(***************************************************************************)
\* the inheritance ID entered by the user: "0x" and 64 hex digits
InheritanceId == <<"0", "x">> \o [i \in 1..64 |-> "0"]

\* a file name built from the whole inheritance ID
FileNameWholeId(inheritanceId, fileExtension) ==
  <<"inheritance_">> \o inheritanceId \o <<".", fileExtension>>

FileName(inheritanceId, fileExtension) ==
  <<"inheritance_">> \o SubSeq(inheritanceId, 1, 8) \o <<".", fileExtension>>

(***************************************************************************)
(* State of one run of the claim tool.                                     *)
(***************************************************************************)
VARIABLES
  record,                 \* the on-chain inheritance record
  beneficiaryKeys,        \* keys derived from the mnemonic that was entered
  pc,                     \* position in claimInheritance
  arweaveTransactionId,   \* local of claimInheritance, <<>> before it is set
  encryptedSymmetricKey,  \* local of claimInheritance
  symmetricKey,           \* local of claimInheritance
  idx,                    \* position of the loop over possibleIds
  fileExtension,          \* local of the loop body / of claimInheritance
  encryptedAsset,         \* local of claimInheritance
  decryptedAsset,         \* local of claimInheritance
  files,                  \* files written by the tool
  thrown,                 \* error thrown to the caller of claimInheritance
  stages,                 \* the steps started, in order
  requests,               \* requests sent to the storage network
  chainCalls,             \* calls made on the contract object
  cryptoOps,              \* cryptographic operations invoked
  keyResponses,           \* responses received from the key service
  console                 \* lines written with console.log / console.error

\* state of setupProvider
VARIABLES
  networkConfig,          \* key of NETWORK_CONFIGS the user selected
  rpcChoice,              \* answer to 'Your choice (1-2): '
  rpcUrl,                 \* local rpcUrl
  attempts,               \* local attempts
  connected,              \* local connected
  ppc,                    \* position in setupProvider
  tried,                  \* URLs a connection was attempted to, in order
  providerChainId,        \* chain ID reported by the connected endpoint
  providerThrown          \* error thrown by setupProvider

\* state of a call of decryptAsset on a byte buffer
VARIABLES
  plaintext,              \* the bytes that were encrypted
  assetKey,               \* the 32-byte symmetric key
  assetBuffer,            \* the encrypted asset handed to decryptAsset
  flipped,                \* position of the byte a bit was flipped in, or 0
  assetResult,            \* what decryptAsset returned or threw
  apc                     \* position: "built", "decrypted" or "idle"

assetVars == << plaintext, assetKey, assetBuffer, flipped, assetResult, apc >>

providerVars == << networkConfig, rpcChoice, rpcUrl, attempts, connected,
                   ppc, tried, providerChainId, providerThrown >>

pipelineVars == << record, beneficiaryKeys, pc, arweaveTransactionId,
                   encryptedSymmetricKey, symmetricKey, idx, fileExtension,
                   encryptedAsset, decryptedAsset, files, thrown, stages,
                   requests, chainCalls, cryptoOps, keyResponses, console >>

\* state of calls of saveFile by successive runs of the tool
VARIABLES
  disk,                   \* the files of the working directory: name -> data
  saveCalls               \* the calls of saveFile made so far

saveVars == << disk, saveCalls >>

\* state of a call of decryptSymmetricKey on a byte buffer
VARIABLES
  wrappedKey,             \* the symmetric key that was encrypted
  recipient,              \* the key pair the blob was encrypted for
  caller,                 \* the key pair whose private key is used
  keyBlob,                \* the bytes handed to decryptSymmetricKey
  keyResult,              \* what decryptSymmetricKey returned or threw
  kpc                     \* position: "built", "decrypted" or "idle"

recoveryVars == << wrappedKey, recipient, caller, keyBlob, keyResult, kpc >>

\* state of one operation of the menu of the testator tool or the check tool
VARIABLES
  wallets,                \* balances in szabo: of the tool's wallet and the gas wallet
  inheritances,           \* the inheritances of the user as the contract holds them
  operation,              \* the menu operation that ran: its name and its tool
  prompts,                \* the questions asked and the answers typed
  reads,                  \* the queries sent to the network, in order
  sent,                   \* the transactions sent, in order
  output,                 \* the lines written to the console
  observed,               \* the values the operation read and computed
  tpc                     \* position: "menu", "done" or "idle"

toolVars == << wallets, inheritances, operation, prompts, reads, sent, output,
               observed, tpc >>

\* state of the search for the contract address and of the creation of the
\* contract instance in main
VARIABLES
  targetNetwork,          \* the network the user selected
  ethProvider,            \* "" (undefined), "provider" or the URL connected to
  endpointIndex,          \* the position of the loop over the public endpoints
  tests,                  \* the connection tests made: URL and result
  questions,              \* the questions asked and the answers typed
  proxyVia,               \* the providers through which the proxy was queried
  contractAddress,        \* the address found or typed, "" before
  addressSource,          \* "proxy", "manual" or ""
  deployed,               \* the addresses with code on the selected network
  contract,               \* the address of the contract instance, "" before
  contractReads,          \* the addresses that contract calls were sent to
  cpc,                    \* position in getContractAddressForNetwork and main
  addressThrown,          \* the error that ended main, "" if none
  menuTool,               \* the tool whose main menu is shown, "" if none
  running,                \* the flag of the menu loop
  rounds,                 \* what each turn of the menu loop chose and did
  caught,                 \* the message main's catch printed, "" if none
  rlClosed,               \* rl.close() was called
  mpc,                    \* "idle", "menu" or "ended"
  hkdfArgs,               \* the arguments of the hkdf call: ikm, salt, info, length
  hkdfPrk,                \* prk, the pseudorandom key of HKDF-Extract
  okm,                    \* the output buffer
  tBlock,                 \* t, the block of the last expand round
  offset,                 \* where the next block goes in okm
  hkdfRound,              \* the loop variable i of the expand loop
  hpc                     \* "idle", "called", "expand" or "returned"

addressVars == << targetNetwork, ethProvider, endpointIndex, tests, questions,
                  proxyVia, contractAddress, addressSource, deployed, contract,
                  contractReads, cpc, addressThrown >>

menuVars == << menuTool, running, rounds, caught, rlClosed, mpc >>

hkdfVars == << hkdfArgs, hkdfPrk, okm, tBlock, offset, hkdfRound, hpc >>

vars == << pipelineVars, providerVars, assetVars, saveVars, recoveryVars,
           toolVars, addressVars, menuVars, hkdfVars >>

\* what the steps of each part of the model leave alone
notPipelineVars == << providerVars, assetVars, saveVars, recoveryVars, toolVars,
    addressVars, menuVars, hkdfVars >>
notProviderVars == << pipelineVars, assetVars, saveVars, recoveryVars, toolVars,
    addressVars, menuVars, hkdfVars >>
notAssetVars == << pipelineVars, providerVars, saveVars, recoveryVars, toolVars,
    addressVars, menuVars, hkdfVars >>
notSaveVars == << pipelineVars, providerVars, assetVars, recoveryVars, toolVars,
    addressVars, menuVars, hkdfVars >>
notRecoveryVars == << pipelineVars, providerVars, assetVars, saveVars, toolVars,
    addressVars, menuVars, hkdfVars >>
notToolVars == << pipelineVars, providerVars, assetVars, saveVars, recoveryVars,
                 addressVars, menuVars, hkdfVars >>
notAddressVars == << pipelineVars, providerVars, assetVars, saveVars,
                    recoveryVars, toolVars, menuVars, hkdfVars >>
notMenuVars == << pipelineVars, providerVars, assetVars, saveVars,
                 recoveryVars, toolVars, addressVars, hkdfVars >>
notHkdfVars == << pipelineVars, providerVars, assetVars, saveVars,
                 recoveryVars, toolVars, addressVars, menuVars >>

\* getContractAddressForNetwork is not running
AddressIdle ==
  /\ targetNetwork = ""
  /\ ethProvider = ""
  /\ endpointIndex = 0
  /\ tests = << >>
  /\ questions = << >>
  /\ proxyVia = << >>
  /\ contractAddress = ""
  /\ addressSource = ""
  /\ deployed = {}
  /\ contract = ""
  /\ contractReads = << >>
  /\ cpc = "idle"
  /\ addressThrown = ""


\* no main menu is shown
MenuIdle ==
  /\ menuTool = ""
  /\ running = FALSE
  /\ rounds = << >>
  /\ caught = ""
  /\ rlClosed = FALSE
  /\ mpc = "idle"

\* no call of hkdf is followed
HkdfIdle ==
  /\ hkdfArgs = [ikm |-> "", salt |-> "", info |-> "", length |-> 0]
  /\ hkdfPrk = << >>
  /\ okm = << >>
  /\ tBlock = << >>
  /\ offset = 0
  /\ hkdfRound = 0
  /\ hpc = "idle"

\* what an operation has read when it has read nothing
NothingObserved ==
  [states |-> << >>, balance |-> 0, gasCost |-> 0, funded |-> FALSE,
   newBalance |-> 0, id |-> ""]

\* no menu operation is running
ToolIdle ==
  /\ wallets = [tool |-> 0, gas |-> 0]
  /\ inheritances = << >>
  /\ operation = [name |-> "", tool |-> ""]
  /\ prompts = << >>
  /\ reads = << >>
  /\ sent = << >>
  /\ output = << >>
  /\ observed = NothingObserved
  /\ tpc = "idle"

\* no key blob is under decryption
RecoveryIdle ==
  /\ wrappedKey = << >>
  /\ recipient = ""
  /\ caller = ""
  /\ keyBlob = << >>
  /\ keyResult = [ok |-> FALSE, error |-> "", data |-> << >>]
  /\ kpc = "idle"

\* saveFile has not been called
SaveIdle ==
  /\ disk = {}
  /\ saveCalls = << >>


NoBlob == [prefix |-> FALSE, digits |-> 0, encFor |-> "", pointOk |-> FALSE]
NoBuffer == [len |-> -1]
NoAsset == [len |-> -1, intact |-> FALSE]

\* the key pairs of the model: the record's beneficiary and somebody else
Owners == {"beneficiary", "stranger"}

\* sequences of n bytes over ByteVals
RECURSIVE ByteSeqs(_)
ByteSeqs(n) ==
  IF n = 0 THEN {<<>>}
  ELSE {<<b>> \o s : b \in ByteVals, s \in ByteSeqs(n - 1)}

\* wallet.privateKey of deriveKeysFromMnemonic: "0x" and 64 hex digits
PrivateKeyOf(owner) == [prefix |-> TRUE, digits |-> 64, owner |-> owner]

\* the state codes of STATE_NAMES
STATE_NAMES == {0, 1, 2, 3, 4}

\* the functions of INHERITOR_ABI and whether calling them sends a
\* transaction ("tx") or reads ("view"); a name the ABI lacks is "absent"
AbiKind(fn) ==
  IF fn = "inheritances" THEN "view"
  ELSE IF fn = "isClaimable" THEN "tx"
  ELSE "absent"

\* the gate asking the contract's state-changing isClaimable instead
GateFunctionIsClaimable == "isClaimable"

\* the contract function isInheritanceClaimable reads the record with
GateFunction == "inheritances"

\* a gate that only rejects Designated
IsClaimableStateLoose(state) == state >= 1

\* return state === 1
IsClaimableState(state) == state = 1

\* the statements with the asset retrieval moved before the key fetch
PipelineOrderRetrieveFirst ==
  << "gate", "locator", "retrieve", "keyFetch", "keyDecrypt",
     "assetDecrypt", "persist", "done" >>

\* the statements of claimInheritance, in the order of lines 1563-1590
PipelineOrder ==
  << "gate", "locator", "keyFetch", "keyDecrypt", "retrieve",
     "assetDecrypt", "persist", "done" >>

NextStage(s) ==
  PipelineOrder[(CHOOSE i \in 1..Len(PipelineOrder) : PipelineOrder[i] = s) + 1]

\* a console line: its fixed text, the values interpolated into it, and
\* the number it prints (-1 when it prints none)
Log(text, shows, num) == [text |-> text, shows |-> shows, num |-> num]

\* the catch block of claimInheritance: log and rethrow
Fail(msg) ==
  /\ pc' = "failed"
  /\ thrown' = msg

\* the line the catch block of claimInheritance writes (line 1595)
Caught ==
  IF pc' = "failed"
    THEN << Log("Failed to claim inheritance", {"error.message"}, -1),
            Log("Error:", {"error.message"}, -1) >>
    ELSE << >>

\* what main() writes before it calls claimInheritance (lines 1608-1647)
MainLines ==
  << Log("=== Inheritor Beneficiary Claim Tool ===", {}, -1),
     Log("Beneficiary address", {"beneficiaryKeys.address"}, -1),
     Log("Gas wallet address", {"gasWallet.address"}, -1),
     Log("Selected network", {"networkConfig.name"}, -1),
     Log("Using Inheritor contract at address", {"contractAddress"}, -1) >>

\* no byte buffer is under decryption
AssetIdle ==
  /\ plaintext = <<>>
  /\ assetKey = [id |-> "", len |-> 0]
  /\ assetBuffer = <<>>
  /\ flipped = 0
  /\ assetResult = [ok |-> FALSE, error |-> "", data |-> <<>>]
  /\ apc = "idle"

\* the provider main() obtained before it calls claimInheritance
ProviderReturned ==
  /\ networkConfig = "ethereum"
  /\ rpcChoice = "2"
  /\ rpcUrl = "https://eth.llamarpc.com"
  /\ attempts = 0
  /\ connected = TRUE
  /\ ppc = "returned"
  /\ tried = << "https://eth.llamarpc.com" >>
  /\ providerChainId = 1
  /\ providerThrown = ""

Init ==
  /\ record \in [state : STATE_NAMES,
                 beneficiaryEOA : {"beneficiary"},
                 arweaveTransactionId : ByteSeqs(LocatorBytes)]
  /\ beneficiaryKeys \in {PrivateKeyOf(o) : o \in Owners}
  /\ pc = PipelineOrder[1]
  /\ arweaveTransactionId = <<>>
  /\ encryptedSymmetricKey = NoBlob
  /\ symmetricKey = NoBuffer
  /\ idx = 1
  /\ fileExtension = ""
  /\ encryptedAsset = NoAsset
  /\ decryptedAsset = NoBuffer
  /\ files = <<>>
  /\ thrown = ""
  /\ stages = <<>>
  /\ requests = <<>>
  /\ chainCalls = <<>>
  /\ cryptoOps = <<>>
  /\ keyResponses = <<>>
  /\ console = MainLines
  /\ ProviderReturned
  /\ AssetIdle
  /\ SaveIdle
  /\ RecoveryIdle
  /\ ToolIdle
  /\ AddressIdle
  /\ MenuIdle
  /\ HkdfIdle

(***************************************************************************)
(* 1. isInheritanceClaimable and the check of its result.                  *)
(***************************************************************************)
\* a gate whose error names the state it found
GateErrorNamingState(state) ==
  IF IsClaimableState(state) THEN ""
  ELSE IF state = 0 THEN "Inheritance is still Designated"
  ELSE IF state = 2 THEN "Inheritance is already Claimed"
  ELSE IF state = 3 THEN "Inheritance is Revoked"
  ELSE "Inheritance is Purged"

\* the error claimInheritance throws for the state isInheritanceClaimable
\* read, "" if none (lines 1564-1567)
GateError(state) ==
  IF ~IsClaimableState(state)
    THEN "Inheritance is not in Claimable state. Cannot proceed."
    ELSE ""

Gate ==
  /\ pc = "gate"
  /\ stages' = Append(stages, "gate")
  /\ chainCalls' = Append(chainCalls,
                          [fn |-> GateFunction, kind |-> AbiKind(GateFunction)])
  /\ \E rpcOk \in BOOLEAN :
       /\ IF ~rpcOk THEN Fail("contract call failed")
          ELSE IF GateError(record.state) # ""
            THEN Fail(GateError(record.state))
          ELSE pc' = NextStage("gate") /\ thrown' = thrown
       /\ console' = console
            \o << Log("Claiming inheritance", {"inheritanceId"}, -1),
                  Log("Checking if inheritance is claimable...", {}, -1) >>
            \o (IF rpcOk
                  THEN << Log("Inheritance state", {"STATE_NAMES[state]", "state"},
                              record.state) >>
                  ELSE << Log("Error checking if inheritance is claimable",
                              {"error.message"}, -1) >>)
            \o Caught
  /\ UNCHANGED << notPipelineVars, record, beneficiaryKeys, arweaveTransactionId,
                  encryptedSymmetricKey, symmetricKey, idx, fileExtension,
                  encryptedAsset, decryptedAsset, files, requests, cryptoOps,
                  keyResponses >>

(***************************************************************************)
(* 2. fetchArweaveTransactionId: the direct method is not in the ABI, so   *)
(* the call on the contract object throws and the struct is read instead.  *)
(***************************************************************************)
FetchLocator ==
  /\ pc = "locator"
  /\ stages' = Append(stages, "locator")
  /\ LET direct == [fn |-> "fetchArweaveTransactionId",
                    kind |-> AbiKind("fetchArweaveTransactionId")]
         struct == [fn |-> "inheritances", kind |-> AbiKind("inheritances")]
     IN  chainCalls' = chainCalls \o <<direct, struct>>
  /\ \E rpcOk \in BOOLEAN :
       /\ IF ~rpcOk
            THEN /\ Fail("contract call failed")
                 /\ UNCHANGED arweaveTransactionId
            ELSE /\ arweaveTransactionId' = Hexlify(record.arweaveTransactionId)
                 /\ pc' = NextStage("locator")
                 /\ thrown' = thrown
       /\ console' = console
            \o << Log("Fetching Arweave transaction ID from smart contract...",
                      {}, -1),
                  Log("Direct method not available", {}, -1) >>
            \o (IF rpcOk
                  THEN << Log("Arweave transaction ID",
                              {"arweaveTransactionId"}, -1) >>
                  ELSE << Log("Error fetching Arweave transaction ID",
                              {"error.message"}, -1) >>)
            \o Caught
  /\ UNCHANGED << notPipelineVars, record, beneficiaryKeys, encryptedSymmetricKey,
                  symmetricKey, idx, fileExtension, encryptedAsset,
                  decryptedAsset, files, requests, cryptoOps, keyResponses >>

(***************************************************************************)
(* 3. retrieveEncryptedSymmetricKey.                                       *)
(***************************************************************************)
Blob(prefix, digits, encFor, pointOk) ==
  [prefix |-> prefix, digits |-> digits, encFor |-> encFor,
   pointOk |-> pointOk]

\* the key blobs the key-distribution service may answer with:
\* 100, 141, 156 (odd digit count), 157 and 158 bytes
KeyBlobs ==
  { Blob(FALSE, 200, "beneficiary", TRUE),
    Blob(FALSE, 282, "beneficiary", TRUE),
    Blob(FALSE, 313, "beneficiary", TRUE),
    Blob(TRUE,  314, "beneficiary", TRUE),
    Blob(FALSE, 314, "beneficiary", FALSE),
    Blob(FALSE, 316, "beneficiary", TRUE) }

\* outcomes of axios.get on the worker URL
KeyResponses ==
  { [kind |-> "networkError", status |-> 0, message |-> FALSE,
     hasKey |-> FALSE, key |-> NoBlob],
    [kind |-> "httpError", status |-> 404, message |-> TRUE,
     hasKey |-> FALSE, key |-> NoBlob],
    [kind |-> "httpError", status |-> 500, message |-> FALSE,
     hasKey |-> FALSE, key |-> NoBlob],
    [kind |-> "response", status |-> 204, message |-> FALSE,
     hasKey |-> FALSE, key |-> NoBlob],
    [kind |-> "response", status |-> 200, message |-> FALSE,
     hasKey |-> FALSE, key |-> NoBlob] }
  \cup { [kind |-> "response", status |-> 200, message |-> FALSE,
          hasKey |-> TRUE, key |-> b] : b \in KeyBlobs }

\* retrieveEncryptedSymmetricKey without the check of line 1306
KeyResponseErrorKeyOptional(r) ==
  IF r.kind = "networkError" THEN "request failed"
  ELSE IF r.kind = "httpError"
    THEN (IF r.message THEN "Server message" ELSE "request failed")
  ELSE IF r.status # 200 THEN "Server responded with status code"
  ELSE ""

\* the error retrieveEncryptedSymmetricKey throws on a response, "" if none
KeyResponseError(r) ==
  IF r.kind = "networkError" THEN "request failed"
  ELSE IF r.kind = "httpError"
    THEN (IF r.message THEN "Server message" ELSE "request failed")
  ELSE IF r.status # 200 THEN "Server responded with status code"
  ELSE IF ~r.hasKey \/ StrLength(r.key) = 0
    THEN "Server did not return encrypted symmetric key"
  ELSE ""

\* a success line that prints the blob instead of its length
KeyResponseLinesShowingBlob(r) ==
  IF r.kind = "httpError"
    THEN << Log("Server responded with error status",
                {"error.response.status"}, r.status) >>
  ELSE IF KeyResponseError(r) = ""
    THEN << Log("Retrieved encrypted symmetric key",
                {"encryptedSymmetricKey"}, -1) >>
  ELSE << >>

\* what retrieveEncryptedSymmetricKey writes about a response
\* (lines 1310 and 1314)
KeyResponseLines(r) ==
  IF r.kind = "httpError"
    THEN << Log("Server responded with error status",
                {"error.response.status"}, r.status) >>
  ELSE IF KeyResponseError(r) = ""
    THEN << Log("Retrieved encrypted symmetric key",
                {"encryptedSymmetricKey.length"}, StrLength(r.key)) >>
  ELSE << >>

RetrieveKey ==
  /\ pc = "keyFetch"
  /\ stages' = Append(stages, "keyFetch")
  /\ \E r \in KeyResponses :
       /\ keyResponses' = Append(keyResponses, r)
       /\ IF KeyResponseError(r) # ""
            THEN /\ Fail(KeyResponseError(r))
                 /\ UNCHANGED encryptedSymmetricKey
            ELSE /\ encryptedSymmetricKey' = r.key
                 /\ pc' = NextStage("keyFetch")
                 /\ thrown' = thrown
       /\ console' = console
            \o << Log("Retrieving encrypted symmetric key from Cloudflare...",
                      {}, -1) >>
            \o KeyResponseLines(r)
            \o Caught
  /\ UNCHANGED << notPipelineVars, record, beneficiaryKeys, arweaveTransactionId,
                  symmetricKey, idx, fileExtension, encryptedAsset,
                  decryptedAsset, files, requests, chainCalls, cryptoOps >>

(***************************************************************************)
(* 4. decryptSymmetricKey on the key without its "0x".                     *)
(***************************************************************************)
DecryptKey ==
  /\ pc = "keyDecrypt"
  /\ stages' = Append(stages, "keyDecrypt")
  /\ LET privateKeyWithout0x ==
           [beneficiaryKeys EXCEPT !.prefix = FALSE]
         res == DecryptSymmetricKey(encryptedSymmetricKey, privateKeyWithout0x)
     IN  /\ cryptoOps' = cryptoOps \o res.ops
         /\ IF res.ok
              THEN /\ symmetricKey' = [len |-> res.len]
                   /\ pc' = NextStage("keyDecrypt")
                   /\ thrown' = thrown
              ELSE /\ Fail(res.error)
                   /\ UNCHANGED symmetricKey
         /\ console' = console
              \o << Log("Decrypting symmetric key...", {}, -1) >>
              \o (IF ~res.ok /\ res.ops # <<>>
                    THEN << Log("Error during symmetric key decryption",
                                {"error.message"}, -1) >>
                    ELSE << >>)
              \o Caught
  /\ UNCHANGED << notPipelineVars, record, beneficiaryKeys, arweaveTransactionId,
                  encryptedSymmetricKey, idx, fileExtension, encryptedAsset,
                  decryptedAsset, files, requests, chainCalls, keyResponses >>

(***************************************************************************)
(* 5. retrieveAssetFromArweave: one loop iteration is the metadata request *)
(* (ProbeTx) followed by the payload request (FetchData).                  *)
(***************************************************************************)
Tag(name, value) == [name |-> name, value |-> value]

\* tag lists a metadata response may carry
TagLists ==
  { <<>>,
    << Tag("App-Name", <<"inheritor">>),
       Tag("Content-Type", <<"image", "png">>) >>,
    << BadTag >> }

\* outcomes of axios.get on https://arweave.net/tx/<id>
MetaResponses ==
  { [kind |-> "throw", tags |-> <<>>], [kind |-> "non200", tags |-> <<>>] }
  \cup { [kind |-> "ok", tags |-> t] : t \in TagLists }

\* outcomes of axios.get on https://arweave.net/<id>
DataResponses ==
  { [kind |-> "throw", asset |-> NoAsset],
    [kind |-> "non200", asset |-> NoAsset],
    [kind |-> "ok", asset |-> [len |-> 28, intact |-> TRUE]],
    [kind |-> "ok", asset |-> [len |-> 29, intact |-> TRUE]],
    [kind |-> "ok", asset |-> [len |-> 29, intact |-> FALSE]],
    [kind |-> "ok", asset |-> [len |-> 45, intact |-> TRUE]] }

\* a loop body that lets the error of a format escape
ContinueOrFailImmediate ==
  /\ fileExtension' = ""
  /\ idx' = idx
  /\ Fail("Failed to retrieve asset from Arweave")

\* `continue` or a caught error in the loop body: the next format is tried,
\* and after the last one the function throws
ContinueOrFail ==
  /\ fileExtension' = ""
  /\ IF idx < Len(PossibleIds(arweaveTransactionId))
       THEN /\ idx' = idx + 1
            /\ pc' = "retrieve"
            /\ thrown' = thrown
       ELSE /\ idx' = idx
            /\ Fail("Failed to retrieve asset from Arweave")

\* one entry of the request log
Request(kind, ok, ext) ==
  [kind |-> kind, enc |-> idx, id |-> PossibleIds(arweaveTransactionId)[idx],
   ok |-> ok, ext |-> ext]

ProbeTx ==
  /\ pc = "retrieve"
  /\ stages' = Append(stages, "probe")
  /\ \E m \in MetaResponses :
       /\ IF m.kind # "ok" \/ FileExtensionOfTags(m.tags) = "<throw>"
            THEN /\ requests' = Append(requests, Request("tx", FALSE, ""))
                 /\ ContinueOrFail
            ELSE /\ requests' = Append(requests,
                       Request("tx", TRUE, FileExtensionOfTags(m.tags)))
                 /\ fileExtension' = FileExtensionOfTags(m.tags)
                 /\ pc' = "download"
                 /\ UNCHANGED << idx, thrown >>
       /\ console' = console
            \o (IF requests = <<>>
                  THEN << Log("Converted base64url transaction ID",
                              {"base64url"}, -1) >>
                  ELSE << >>)
            \o Caught
  /\ UNCHANGED << notPipelineVars, record, beneficiaryKeys, arweaveTransactionId,
                  encryptedSymmetricKey, symmetricKey, encryptedAsset,
                  decryptedAsset, files, chainCalls, cryptoOps, keyResponses >>

FetchData ==
  /\ pc = "download"
  /\ stages' = Append(stages, "download")
  /\ \E d \in DataResponses :
       /\ IF d.kind # "ok"
            THEN /\ requests' = Append(requests, Request("data", FALSE, ""))
                 /\ ContinueOrFail
                 /\ UNCHANGED encryptedAsset
            ELSE /\ requests' = Append(requests, Request("data", TRUE, ""))
                 /\ encryptedAsset' = d.asset
                 /\ pc' = NextStage("retrieve")
                 /\ UNCHANGED << idx, fileExtension, thrown >>
       /\ console' = console
            \o (IF d.kind = "ok"
                  THEN << Log("Retrieved encrypted asset",
                              {"dataResponse.data.byteLength", "fileExtension"},
                              d.asset.len) >>
                  ELSE << >>)
            \o Caught
  /\ UNCHANGED << notPipelineVars, record, beneficiaryKeys, arweaveTransactionId,
                  encryptedSymmetricKey, symmetricKey, decryptedAsset,
                  files, chainCalls, cryptoOps, keyResponses >>

(***************************************************************************)
(* 6. decryptAsset.                                                        *)
(***************************************************************************)
DecryptAssetStep ==
  /\ pc = "assetDecrypt"
  /\ stages' = Append(stages, "assetDecrypt")
  /\ LET res == DecryptAsset(encryptedAsset, symmetricKey)
     IN  /\ cryptoOps' = cryptoOps \o res.ops
         /\ IF res.ok
              THEN /\ decryptedAsset' = [len |-> res.len]
                   /\ pc' = NextStage("assetDecrypt")
                   /\ thrown' = thrown
              ELSE /\ Fail(res.error)
                   /\ UNCHANGED decryptedAsset
         /\ console' = console
              \o << Log("Decrypting asset...", {}, -1) >>
              \o (IF res.ok
                    THEN << Log("Decrypted asset", {"decryptedAsset.length"},
                                res.len) >>
                    ELSE << >>)
              \o Caught
  /\ UNCHANGED << notPipelineVars, record, beneficiaryKeys, arweaveTransactionId,
                  encryptedSymmetricKey, symmetricKey, idx, fileExtension,
                  encryptedAsset, files, requests, chainCalls, keyResponses >>

(***************************************************************************)
(* 7. saveFile: fs.writeFileSync creates the file or throws; the statSync  *)
(* of the file just written only reads.                                    *)
(***************************************************************************)
\* the value claimInheritance hands to saveFile as data (line 1590)
SavedData == "decryptedAsset"

SaveFile ==
  /\ pc = "persist"
  /\ stages' = Append(stages, "persist")
  /\ \E fsOk \in BOOLEAN :
       /\ IF fsOk
            THEN /\ files' = Append(files,
                       [name |-> FileName(InheritanceId, fileExtension),
                        content |-> SavedData,
                        size |-> decryptedAsset.len])
                 /\ pc' = NextStage("persist")
                 /\ thrown' = thrown
            ELSE /\ Fail("file could not be written")
                 /\ UNCHANGED files
       /\ console' = console
            \o (IF fsOk
                  THEN << Log("File saved", {"filename"}, -1),
                          Log("File size", {"stats.size"}, decryptedAsset.len),
                          Log("Inheritance claimed successfully!", {}, -1) >>
                  ELSE << >>)
            \o Caught
  /\ UNCHANGED << notPipelineVars, record, beneficiaryKeys, arweaveTransactionId,
                  encryptedSymmetricKey, symmetricKey, idx, fileExtension,
                  encryptedAsset, decryptedAsset, requests, chainCalls,
                  cryptoOps, keyResponses >>

Next ==
  \/ Gate
  \/ FetchLocator
  \/ RetrieveKey
  \/ DecryptKey
  \/ ProbeTx
  \/ FetchData
  \/ DecryptAssetStep
  \/ SaveFile

Spec == Init /\ [][Next]_vars

(***************************************************************************)
(* Properties of the claim pipeline.                                       *)
(***************************************************************************)
\* the step has been started in this run
Ran(stage) == \E i \in 1..Len(stages) : stages[i] = stage

NotClaimableError == "Inheritance is not in Claimable state. Cannot proceed."

\* C1: a step after the gate (locator read, key fetch, key decryption,
\* storage requests, asset decryption, file write) is started only when the
\* record state read by the gate is 1; for states 0, 2, 3 and 4 the run
\* ends with an error right after the gate.
C1_GateOnlyClaimable ==
  /\ (\E i \in 1..Len(stages) : stages[i] # "gate") => record.state = 1
  /\ (record.state # 1 /\ Ran("gate")) =>
       /\ pc = "failed"
       /\ thrown # ""
       /\ stages = <<"gate">>
       /\ requests = <<>> /\ cryptoOps = <<>> /\ files = <<>>

\* a revoked record was rejected by the gate
W_C1_Rejected ==
  /\ record.state = 3
  /\ pc = "failed"
  /\ thrown = NotClaimableError
  /\ stages = <<"gate">>

\* C2: the pipeline fails closed.  At most one file is written, and only
\* after the gate passed, the key was decrypted, the asset was downloaded
\* and its tag verified; a failure reaches the caller, ends the run, and
\* leaves no file; after a failure no further step is started.
C2_FailClosed ==
  /\ [] /\ Len(files) <= 1
        /\ files # <<>> =>
             /\ record.state = 1
             /\ Ran("gate") /\ Ran("keyDecrypt") /\ Ran("download")
             /\ Ran("assetDecrypt")
             /\ symmetricKey # NoBuffer
             /\ encryptedAsset # NoAsset
             /\ encryptedAsset.intact
             /\ decryptedAsset # NoBuffer
             /\ files[1].size = decryptedAsset.len
             /\ thrown = ""
        /\ pc = "failed" => (thrown # "" /\ files = <<>>)
        /\ thrown # "" => pc = "failed"
  /\ [][thrown # "" => (stages' = stages /\ files' = files)]_vars

\* a run that wrote its file
W_C2_FileWritten ==
  /\ pc = "done"
  /\ Len(files) = 1
  /\ encryptedAsset.intact

\* C3: the pipeline sends no transaction and leaves the record as it is;
\* every call that reaches the contract is a view read.
C3_NoTransaction ==
  /\ [](\A i \in 1..Len(chainCalls) : chainCalls[i].kind # "tx")
  /\ [][record' = record]_vars

\* a complete run with its three calls on the contract object
W_C3_ReadsOnly ==
  /\ pc = "done"
  /\ Len(chainCalls) = 3
  /\ \E i \in 1..Len(chainCalls) : chainCalls[i].kind = "view"

TooShortError == "Encrypted key too short"

\* the key blob handed to decryptSymmetricKey was encrypted for the caller
\* and starts with a valid point
BlobForCaller ==
  /\ encryptedSymmetricKey.pointOk
  /\ encryptedSymmetricKey.encFor = beneficiaryKeys.owner

\* C4 as stated: every key blob of at least 126 bytes is accepted as
\* well-formed, and with the right private key it is decrypted; a 141-byte
\* blob yields a 16-byte key.
CX_C4_Accepts126 ==
  (Ran("keyDecrypt")
     /\ KeyBufferLength(encryptedSymmetricKey) >= 65 + 32 + 12 + 16 + 1
     /\ BlobForCaller)
  => /\ thrown # TooShortError
     /\ symmetricKey # NoBuffer
     /\ KeyBufferLength(encryptedSymmetricKey) = 141 => symmetricKey.len = 16

\* C4 amended: decryptSymmetricKey rejects a blob as too short exactly when
\* it has fewer than 157 bytes (65 + 32 + 12 + 16 and 32 ciphertext bytes);
\* every blob of at least 157 bytes encrypted for the caller is decrypted,
\* and a 141-byte blob is rejected as too short.
C4_Accepts157 ==
  Ran("keyDecrypt") =>
    /\ (thrown = TooShortError) <=>
         (KeyBufferLength(encryptedSymmetricKey) < 157)
    /\ (KeyBufferLength(encryptedSymmetricKey) >= 157 /\ BlobForCaller)
         => symmetricKey # NoBuffer
    /\ KeyBufferLength(encryptedSymmetricKey) = 141 =>
         (pc = "failed" /\ symmetricKey = NoBuffer)

\* the 141-byte blob of the end-to-end scenario was rejected
W_C4_Rejected141 ==
  /\ Ran("keyDecrypt")
  /\ KeyBufferLength(encryptedSymmetricKey) = 141
  /\ BlobForCaller
  /\ thrown = TooShortError

\* C5: for a key blob shorter than the minimum length decryptSymmetricKey
\* raises the too-short error before any cryptographic operation is invoked.
C5_ShortBlobBeforeCrypto ==
  (Ran("keyDecrypt") /\ KeyBufferLength(encryptedSymmetricKey) < minimumLength)
  => /\ pc = "failed"
     /\ thrown = TooShortError
     /\ cryptoOps = <<>>
     /\ symmetricKey = NoBuffer

\* a 100-byte blob was rejected
W_C5_Rejected100 ==
  /\ Ran("keyDecrypt")
  /\ KeyBufferLength(encryptedSymmetricKey) = 100
  /\ thrown = TooShortError
  /\ cryptoOps = <<>>

\* C6 as stated: a key returned by decryptSymmetricKey has exactly 32 bytes.
CX_C6_Exactly32 ==
  symmetricKey # NoBuffer => symmetricKey.len = 32

\* C6 amended: a key returned by decryptSymmetricKey for a blob of n bytes
\* has n - 125 bytes, which is at least 32; it has exactly 32 bytes only
\* for a blob of exactly 157 bytes.
C6_KeyLengthFromBlob ==
  symmetricKey # NoBuffer =>
    /\ symmetricKey.len =
         KeyBufferLength(encryptedSymmetricKey) - (65 + 32 + 12 + 16)
    /\ symmetricKey.len >= 32
    /\ (symmetricKey.len = 32) <=>
         (KeyBufferLength(encryptedSymmetricKey) = 157)

\* a 158-byte blob was decrypted to a 33-byte key
W_C6_Key33 ==
  /\ symmetricKey # NoBuffer
  /\ KeyBufferLength(encryptedSymmetricKey) = 158
  /\ symmetricKey.len = 33

RetrieveError == "Failed to retrieve asset from Arweave"

\* the identifier of the e-th format, from the bytes of the record's locator
ExpectedId(e) ==
  IF e = 1 THEN HexOfBytes(record.arweaveTransactionId)
  ELSE IF e = 2 THEN ToBase64Url(ToBase64(record.arweaveTransactionId))
  ELSE StripLeadingZeros(HexOfBytes(record.arweaveTransactionId))

\* the metadata request / the payload request of format e succeeded
ProbeOk(e) ==
  \E i \in 1..Len(requests) :
    requests[i].kind = "tx" /\ requests[i].enc = e /\ requests[i].ok

DataOk(e) ==
  \E i \in 1..Len(requests) :
    requests[i].kind = "data" /\ requests[i].enc = e /\ requests[i].ok

\* a request of format e failed
EncFailed(e) ==
  \E i \in 1..Len(requests) : requests[i].enc = e /\ ~requests[i].ok

\* C7 as stated: the format selected is the first one whose metadata probe
\* succeeded.
CX_C7_FirstProbeSelected ==
  encryptedAsset # NoAsset => \A e \in 1..(idx - 1) : ~ProbeOk(e)

\* C7 amended: the formats are tried in the order hex without prefix,
\* base64url without padding, zero-stripped hex; the format selected is the
\* first one for which the metadata probe and the payload download both
\* succeeded, and the extension returned is the one of that format's
\* metadata.  When only the second format resolves, the result is the
\* second format's.
C7_FirstCompleteSelected ==
  /\ \A i \in 1..Len(requests) : requests[i].id = ExpectedId(requests[i].enc)
  /\ requests # <<>> => (requests[1].enc = 1 /\ requests[1].kind = "tx")
  /\ \A i \in 1..(Len(requests) - 1) :
       requests[i + 1].enc \in {requests[i].enc, requests[i].enc + 1}
  /\ encryptedAsset # NoAsset =>
       /\ ProbeOk(idx) /\ DataOk(idx)
       /\ \A e \in 1..(idx - 1) : EncFailed(e) /\ ~(ProbeOk(e) /\ DataOk(e))
       /\ \E i \in 1..Len(requests) :
            /\ requests[i].kind = "tx" /\ requests[i].enc = idx
            /\ requests[i].ok /\ requests[i].ext = fileExtension
       /\ (~ProbeOk(1) /\ ProbeOk(2) /\ DataOk(2)) => idx = 2

\* the first format's probe succeeded but its download failed, and the
\* asset came from the second format
W_C7_SecondAfterFailedDownload ==
  /\ encryptedAsset # NoAsset
  /\ idx = 2
  /\ ProbeOk(1) /\ ~DataOk(1)
  /\ fileExtension = "png"

\* C8: retrieveAssetFromArweave ends after at most three formats, each
\* requested at most once per endpoint; it throws its error exactly when
\* every one of the three formats failed; a failed format other than the
\* last is followed by the probe of the next format, not by an error.
C8_ThreeFormatsThenError ==
  /\ \A i \in 1..Len(requests) : requests[i].enc \in 1..3
  /\ \A i, j \in 1..Len(requests) :
       (i # j /\ requests[i].kind = requests[j].kind)
         => requests[i].enc # requests[j].enc
  /\ (thrown = RetrieveError) <=> (\A e \in 1..3 : EncFailed(e))
  /\ \A i \in 1..Len(requests) :
       (~requests[i].ok /\ requests[i].enc < 3) =>
          IF i < Len(requests)
            THEN /\ requests[i + 1].kind = "tx"
                 /\ requests[i + 1].enc = requests[i].enc + 1
            ELSE pc = "retrieve" /\ idx = requests[i].enc + 1 /\ thrown = ""

\* all three formats failed and the error was thrown
W_C8_AllFailed ==
  /\ thrown = RetrieveError
  /\ \A e \in 1..3 : EncFailed(e)
  /\ ProbeOk(2) /\ ~ProbeOk(3)

\* C9: within one call the identifiers requested for different formats are
\* pairwise distinct.
CX_C9_DistinctIds ==
  \A i, j \in 1..Len(requests) :
    requests[i].enc # requests[j].enc => requests[i].id # requests[j].id

\* position of a step in the order of the code
Rank(stage) ==
  IF stage = "gate" THEN 1
  ELSE IF stage = "locator" THEN 2
  ELSE IF stage = "keyFetch" THEN 3
  ELSE IF stage = "keyDecrypt" THEN 4
  ELSE IF stage \in {"probe", "download"} THEN 5
  ELSE IF stage = "assetDecrypt" THEN 6
  ELSE 7

\* C10 as stated: the storage-network probe that resolves the locator
\* format happens before the key-distribution service is contacted.
CX_C10_ProbeBeforeKeyFetch ==
  \A i \in 1..Len(stages) :
    stages[i] = "keyFetch" => \E j \in 1..(i - 1) : stages[j] = "probe"

\* C10 amended: the steps occur in the order gate, locator read from the
\* contract, key fetch, key decryption, storage-network probe and download
\* (per format), asset decryption, file write; the key-distribution service
\* is contacted and the key decrypted before the first storage-network
\* probe, and a step is started only while no error has been thrown.
C10_OrderOfSteps ==
  /\ [] /\ stages # <<>> => stages[1] = "gate"
        /\ \A i \in 1..(Len(stages) - 1) :
             \/ Rank(stages[i + 1]) = Rank(stages[i]) + 1
             \/ Rank(stages[i + 1]) = 5 /\ Rank(stages[i]) = 5
        /\ \A i \in 1..Len(stages) :
             stages[i] = "probe" =>
               \E j \in 1..(i - 1) : stages[j] = "keyDecrypt"
  /\ [][stages' # stages => (thrown = "" /\ pc \notin {"failed", "done"})]_vars

\* a complete run: every step in the order of the code
W_C10_FullRun ==
  /\ pc = "done"
  /\ Head(stages) = "gate"
  /\ stages[Len(stages)] = "persist"
  /\ SubSeq(stages, 1, 6) =
       <<"gate", "locator", "keyFetch", "keyDecrypt", "probe", "download">>

(***************************************************************************)
(* Error handling, logging and identifier encodings of the claim tool.     *)
(***************************************************************************)

KeyNotFoundError == "Server did not return encrypted symmetric key"

\* how many times a stage was started
Count(stage) == Cardinality({ i \in 1..Len(stages) : stages[i] = stage })

\* the key service answered 200 without an encryptedSymmetricKey field
KeyFieldMissing ==
  \E i \in 1..Len(keyResponses) :
    /\ keyResponses[i].kind = "response"
    /\ keyResponses[i].status = 200
    /\ ~keyResponses[i].hasKey

\* C11: when the 200 response of the key service carries no
\* encryptedSymmetricKey field, the run ends with the key-not-found error:
\* the key service was asked exactly once, decryptSymmetricKey was not
\* called (no cryptographic operation ran), no request went to the storage
\* network and no file was written.
C11_MissingKeyTerminal ==
  KeyFieldMissing =>
    /\ pc = "failed"
    /\ thrown = KeyNotFoundError
    /\ Len(keyResponses) = 1
    /\ Count("keyFetch") = 1
    /\ ~Ran("keyDecrypt")
    /\ cryptoOps = <<>>
    /\ requests = <<>>
    /\ files = <<>>

W_C11_KeyMissing ==
  /\ KeyFieldMissing
  /\ thrown = KeyNotFoundError

\* the message of the error node's decipher.final() throws on a tag mismatch
AuthError == "Unsupported state or unable to authenticate data"

\* decryptSymmetricKey was handed a well-formed blob that was not encrypted
\* for the caller's key pair, so the tag check of the key blob fails
KeyTagMismatch ==
  /\ Ran("keyDecrypt")
  /\ KeyBufferLength(encryptedSymmetricKey) >= minimumLength
  /\ encryptedSymmetricKey.pointOk
  /\ encryptedSymmetricKey.encFor # beneficiaryKeys.owner

\* C12: decryptSymmetricKey is called at most once in a run; when the tag
\* check of the key blob fails the run ends with that error after a single
\* decryption attempt (one ECDH, SHA-256, HKDF, AES-GCM sequence), and no
\* asset is requested, downloaded or decrypted and no file is written.
C12_KeyTagFailureTerminal ==
  /\ Count("keyDecrypt") <= 1
  /\ KeyTagMismatch =>
       /\ pc = "failed"
       /\ thrown = AuthError
       /\ cryptoOps = << "ECDH", "SHA256", "HKDF", "AES-GCM" >>
       /\ symmetricKey = NoBuffer
       /\ requests = <<>>
       /\ ~Ran("probe") /\ ~Ran("download")
       /\ ~Ran("assetDecrypt") /\ ~Ran("persist")
       /\ files = <<>>

W_C12_KeyTagFailed ==
  /\ KeyTagMismatch
  /\ thrown = AuthError

AssetTooShortError == "Encrypted data too short"

\* the cryptographic operations of one successful key recovery
KeyOps == << "ECDH", "SHA256", "HKDF", "AES-GCM" >>

\* C13: decryptAsset rejects an asset of fewer than 29 bytes with
\* 'Encrypted data too short' before any decryption runs; an asset of
\* n >= 29 bytes is split into nonce [0,12), ciphertext [12,n-16) and tag
\* [n-16,n): consecutive ranges that start at 0 and end at n, the
\* ciphertext holding n-28 >= 1 bytes, and the decryption is started.
C13_AssetLengthAndSplit ==
  Ran("assetDecrypt") =>
    LET n     == encryptedAsset.len
        parts == AssetParts(n)
    IN  IF n < 29
          THEN /\ pc = "failed"
               /\ thrown = AssetTooShortError
               /\ cryptoOps = KeyOps
               /\ decryptedAsset = NoBuffer
          ELSE /\ parts.nonce = [from |-> 0, to |-> 12]
               /\ parts.ciphertext = [from |-> 12, to |-> n - 16]
               /\ parts.tag = [from |-> n - 16, to |-> n]
               /\ parts.nonce.to = parts.ciphertext.from
               /\ parts.ciphertext.to = parts.tag.from
               /\ parts.ciphertext.to - parts.ciphertext.from = n - 28
               /\ n - 28 >= 1
               /\ cryptoOps = KeyOps \o << "AES-GCM" >>
               /\ thrown # AssetTooShortError
               /\ decryptedAsset # NoBuffer => decryptedAsset.len = n - 28

W_C13_Split45 ==
  /\ Ran("assetDecrypt")
  /\ encryptedAsset.len = 45
  /\ decryptedAsset.len = 17

\* the run was ended by the gate on reading the record's state
RejectedByGate ==
  /\ stages = << "gate" >>
  /\ pc = "failed"
  /\ thrown = GateError(record.state)

\* the console line isInheritanceClaimable wrote about the state it read
StateLine(state) ==
  \E i \in 1..Len(console) :
    /\ console[i].text = "Inheritance state"
    /\ console[i].num = state

\* C14 as stated: the error reported for a rejected state is specific to
\* that state, i.e. no other rejected state is reported with the same error.
CX_C14_StateSpecificError ==
  RejectedByGate =>
    \A other \in (STATE_NAMES \ {1, record.state}) :
      GateError(other) # thrown

\* C14 amended: states 0, 2, 3 and 4 are all rejected with the one error
\* 'Inheritance is not in Claimable state. Cannot proceed.'; what tells
\* them apart is the console line 'Inheritance state: NAME (n)' written
\* before the error; state 1 is the only state with which a run gets past
\* the gate.
C14_OneErrorStateInLog ==
  /\ RejectedByGate =>
       /\ record.state \in {0, 2, 3, 4}
       /\ thrown = NotClaimableError
       /\ StateLine(record.state)
       /\ \A other \in STATE_NAMES \ {record.state} : ~StateLine(other)
  /\ Ran("locator") => record.state = 1

W_C14_RevokedRejected ==
  /\ RejectedByGate
  /\ record.state = 3
  /\ StateLine(3)

\* the address of the key pair derived from the caller's mnemonic
CallerAddress == beneficiaryKeys.owner

\* the warning a comparison of the caller's address with the record's
\* beneficiary would write on a mismatch
MismatchWarning ==
  \E i \in 1..Len(console) :
    "inheritance.beneficiaryEOA" \in console[i].shows

\* C15: a run that reaches key recovery with a caller whose address is not
\* the record's beneficiary has written a warning about the mismatch before
\* the key was requested.
CX_C15_BeneficiaryCompared ==
  (Ran("keyFetch") /\ CallerAddress # record.beneficiaryEOA)
    => MismatchWarning

\* the run ended in the given stage
FailedIn(stage) ==
  /\ pc = "failed"
  /\ stages # <<>>
  /\ stages[Len(stages)] = stage

\* the run ended because the tag check of the key blob failed
KeyTagFailure == FailedIn("keyDecrypt") /\ KeyTagMismatch

\* the run ended because the tag check of the asset failed
AssetTagFailure ==
  /\ FailedIn("assetDecrypt")
  /\ encryptedAsset.len >= 12 + 1 + 16
  /\ symmetricKey.len = 32
  /\ ~encryptedAsset.intact

Logged(text) == \E i \in 1..Len(console) : console[i].text = text

\* C16 as stated: the error reported for a failed tag check of the asset is
\* none of the errors decryptSymmetricKey reports for a key blob.
CX_C16_TagFailuresDiffer ==
  AssetTagFailure =>
    \A b \in KeyBlobs : \A o \in Owners :
      DecryptSymmetricKey(b, PrivateKeyOf(o)).error # thrown

\* C16 amended: the not-claimable, key-not-found, too-short-blob and
\* asset-unavailable errors and the tag-check error are five different
\* messages, but a failed tag check of the key blob and a failed tag check
\* of the asset are reported with the very same error; the two are told
\* apart only on the console, where the key failure is preceded by 'Error
\* during symmetric key decryption' and the asset failure by 'Decrypting
\* asset...'.
C16_ErrorsByCause ==
  /\ Cardinality({ NotClaimableError, KeyNotFoundError, TooShortError,
                   RetrieveError, AuthError }) = 5
  /\ RejectedByGate => thrown = NotClaimableError
  /\ KeyFieldMissing => thrown = KeyNotFoundError
  /\ (FailedIn("keyDecrypt")
        /\ KeyBufferLength(encryptedSymmetricKey) < minimumLength)
       => thrown = TooShortError
  /\ (pc = "failed" /\ idx = 3 /\ stages[Len(stages)] \in {"probe", "download"})
       => thrown = RetrieveError
  /\ KeyTagFailure =>
       /\ thrown = AuthError
       /\ Logged("Error during symmetric key decryption")
       /\ ~Logged("Decrypting asset...")
  /\ AssetTagFailure =>
       /\ thrown = AuthError
       /\ ~Logged("Error during symmetric key decryption")
       /\ Logged("Decrypting asset...")

W_C16_AssetTagFailed ==
  /\ AssetTagFailure
  /\ thrown = AuthError
  /\ Logged("Decrypting asset...")

(***************************************************************************)
(* setupProvider: the connection loop over the custom URL and the public   *)
(* fallbacks, and the check of the chain ID.                               *)
(***************************************************************************)
ETHEREUM_CHAIN_ID == 1
ARBITRUM_CHAIN_ID == 42161

NETWORK_CONFIGS ==
  [ ethereum |->
      [ chainId |-> ETHEREUM_CHAIN_ID,
        publicFallbacks |-> << "https://eth.llamarpc.com",
                               "https://rpc.ankr.com/eth",
                               "https://cloudflare-eth.com" >> ],
    arbitrum |->
      [ chainId |-> ARBITRUM_CHAIN_ID,
        publicFallbacks |-> << "https://arb1.arbitrum.io/rpc",
                               "https://rpc.ankr.com/arbitrum",
                               "https://arbitrum-one.publicnode.com" >> ] ]

\* publicFallbacks[i] with the index counted from 0 as in the source
Fallback(config, i) == config.publicFallbacks[i + 1]

\* what the user may type at 'Enter RPC URL for ...': a URL of their own or
\* one of the public endpoints of either network
CustomUrls ==
  { "https://mainnet.infura.io/v3/KEY" }
  \cup { NETWORK_CONFIGS[n].publicFallbacks[i] :
           n \in {"ethereum", "arbitrum"}, i \in 1..3 }

\* what the user may type at 'Your choice (1-2): '
RpcChoices == { "1", "2", "" }

\* chain IDs an endpoint may report
ReportedChainIds == { ETHEREUM_CHAIN_ID, ARBITRUM_CHAIN_ID, 5 }

ConnectError == "Failed to connect to any RPC endpoint"
WrongNetworkError == "Provider connected to wrong network"

\* a catch block that starts the alternatives at the first public endpoint
NextRpcUrlFromFirst(config, failures, url) ==
  IF failures < 3 /\ Len(config.publicFallbacks) > failures
    THEN Fallback(config, failures - 1)
    ELSE url

\* a catch block that keeps the URL that just failed
NextRpcUrlSame(config, failures, url) == url

\* the URL the catch block leaves in rpcUrl after the given number of
\* failed attempts
NextRpcUrl(config, failures, url) ==
  IF failures < 3 /\ Len(config.publicFallbacks) > failures
    THEN Fallback(config, failures)
    ELSE url

\* claimInheritance has not been called while setupProvider runs
PipelineNotStarted ==
  /\ record = [state |-> 1, beneficiaryEOA |-> "beneficiary",
               arweaveTransactionId |-> [i \in 1..LocatorBytes |-> 0]]
  /\ beneficiaryKeys = PrivateKeyOf("beneficiary")
  /\ pc = "main"
  /\ arweaveTransactionId = <<>>
  /\ encryptedSymmetricKey = NoBlob
  /\ symmetricKey = NoBuffer
  /\ idx = 1
  /\ fileExtension = ""
  /\ encryptedAsset = NoAsset
  /\ decryptedAsset = NoBuffer
  /\ files = <<>>
  /\ thrown = ""
  /\ stages = <<>>
  /\ requests = <<>>
  /\ chainCalls = <<>>
  /\ cryptoOps = <<>>
  /\ keyResponses = <<>>
  /\ console = <<>>

InitProvider ==
  /\ networkConfig \in {"ethereum", "arbitrum"}
  /\ rpcChoice = ""
  /\ rpcUrl = ""
  /\ attempts = 0
  /\ connected = FALSE
  /\ ppc = "choice"
  /\ tried = <<>>
  /\ providerChainId = 0
  /\ providerThrown = ""
  /\ PipelineNotStarted
  /\ AssetIdle
  /\ SaveIdle
  /\ RecoveryIdle
  /\ ToolIdle
  /\ AddressIdle
  /\ MenuIdle
  /\ HkdfIdle

\* the two prompts and the choice of the first URL
ChooseRpc ==
  /\ ppc = "choice"
  /\ \E choice \in RpcChoices :
       /\ rpcChoice' = choice
       /\ IF choice = "1"
            THEN \E url \in CustomUrls : rpcUrl' = url
            ELSE rpcUrl' = Fallback(NETWORK_CONFIGS[networkConfig], 0)
  /\ ppc' = "connect"
  /\ UNCHANGED << networkConfig, attempts, connected, tried,
                  providerChainId, providerThrown, notProviderVars >>

\* one iteration of while (!connected && attempts < 3)
Connect ==
  /\ ppc = "connect"
  /\ ~connected /\ attempts < 3
  /\ tried' = Append(tried, rpcUrl)
  /\ \E ok \in BOOLEAN :
       IF ok
         THEN /\ connected' = TRUE
              /\ ppc' = "verify"
              /\ UNCHANGED << attempts, rpcUrl, providerThrown >>
         ELSE /\ attempts' = attempts + 1
              /\ rpcUrl' = NextRpcUrl(NETWORK_CONFIGS[networkConfig],
                                      attempts + 1, rpcUrl)
              /\ IF ~(attempts + 1 < 3
                      /\ Len(NETWORK_CONFIGS[networkConfig].publicFallbacks)
                           > attempts + 1)
                    /\ attempts + 1 >= 3
                   THEN ppc' = "failed" /\ providerThrown' = ConnectError
                   ELSE ppc' = "connect" /\ providerThrown' = providerThrown
              /\ UNCHANGED connected
  /\ UNCHANGED << networkConfig, rpcChoice, providerChainId, notProviderVars >>

\* a setupProvider that returns the provider whatever chain it reports
VerifyNetworkAnyChain ==
  /\ ppc = "verify"
  /\ \E id \in ReportedChainIds :
       /\ providerChainId' = id
       /\ ppc' = "returned" /\ providerThrown' = providerThrown
  /\ UNCHANGED << networkConfig, rpcChoice, rpcUrl, attempts, connected,
                  tried, notProviderVars >>

\* getNetwork and the comparison of the chain ID
VerifyNetwork ==
  /\ ppc = "verify"
  /\ \E id \in ReportedChainIds :
       /\ providerChainId' = id
       /\ IF id # NETWORK_CONFIGS[networkConfig].chainId
            THEN ppc' = "failed" /\ providerThrown' = WrongNetworkError
            ELSE ppc' = "returned" /\ providerThrown' = providerThrown
  /\ UNCHANGED << networkConfig, rpcChoice, rpcUrl, attempts, connected,
                  tried, notProviderVars >>

NextProvider == ChooseRpc \/ Connect \/ VerifyNetwork

SpecProvider == InitProvider /\ [][NextProvider]_vars

\* no URL occurs twice among the connection attempts
NoUrlTwice ==
  \A i, j \in 1..Len(tried) : i # j => tried[i] # tried[j]

\* the bounded retry of setupProvider, apart from the URLs it uses: at most
\* 3 attempts, none after a success, and the connection error exactly after
\* the third failure
BoundedRetry ==
  /\ Len(tried) <= 3
  /\ attempts <= 3
  /\ connected => /\ Len(tried) = attempts + 1
                  /\ tried[Len(tried)] = rpcUrl
  /\ ~connected => Len(tried) = attempts
  /\ providerThrown = ConnectError <=> (attempts = 3 /\ ~connected)
  /\ (attempts = 3 /\ ~connected) => ppc = "failed"

\* the custom URL the user entered is the second or third public fallback
\* of the selected network
CustomIsLaterFallback ==
  /\ rpcChoice = "1"
  /\ tried # <<>>
  /\ tried[1] \in { Fallback(NETWORK_CONFIGS[networkConfig], 1),
                    Fallback(NETWORK_CONFIGS[networkConfig], 2) }

\* C17 as stated: at most 3 attempts, stop at the first success, the
\* connection error after the third failure, and never the same URL twice
\* in one call.
CX_C17_NeverSameUrl ==
  /\ BoundedRetry
  /\ NoUrlTwice

\* C17 amended: at most 3 attempts, stop at the first success, the
\* connection error after the third failure; the URLs attempted are
\* pairwise different when the public endpoints were chosen or the custom
\* URL is not the second or third fallback of the network, and in every
\* call the second and third attempts use different URLs; a custom URL
\* equal to the second or third fallback is attempted again when its turn
\* as a fallback comes.
C17_BoundedRetry ==
  /\ BoundedRetry
  /\ ~CustomIsLaterFallback => NoUrlTwice
  /\ Len(tried) = 3 => tried[2] # tried[3]
  /\ (CustomIsLaterFallback /\ Len(tried) = 3) => ~NoUrlTwice

W_C17_ThirdFailure ==
  /\ providerThrown = ConnectError
  /\ Len(tried) = 3
  /\ rpcChoice = "1"
  /\ NoUrlTwice

\* the values of the claim tool that are key material: the beneficiary's
\* private key, the encrypted key blob, the key derived by HKDF and the
\* recovered symmetric key
KeyMaterial ==
  { "beneficiaryKeys.privateKey", "encryptedSymmetricKey",
    "encryptionKey", "symmetricKey", "sharedSecret", "hashedSecret",
    "beneficiaryMnemonic", "gasWalletKey" }

\* C18: no console line of a run prints key material (the private key, the
\* encrypted key blob, the derived encryption key or the symmetric key; of
\* the blob only its length in characters is printed), at most one file is
\* written, and what is written to it is the decrypted asset.
C18_KeyMaterialNotWritten ==
  /\ \A i \in 1..Len(console) : console[i].shows \cap KeyMaterial = {}
  /\ Len(files) <= 1
  /\ \A i \in 1..Len(files) :
       /\ files[i].content = "decryptedAsset"
       /\ files[i].content \notin KeyMaterial
       /\ files[i].size = decryptedAsset.len

W_C18_RunWithFile ==
  /\ pc = "done"
  /\ Len(files) = 1
  /\ symmetricKey.len = 32
  /\ Logged("Retrieved encrypted symmetric key")
  /\ Logged("File saved")

\* value of a character of the URL-safe base64 alphabet
Base64UrlVal(c) ==
  IF c = "-" THEN 62
  ELSE IF c = "_" THEN 63
  ELSE IF \E i \in 1..62 : Base64Alphabet[i] = c
    THEN (CHOOSE i \in 1..62 : Base64Alphabet[i] = c) - 1
  ELSE -1

\* the bytes an unpadded base64url string stands for
RECURSIVE FromBase64Url(_)
FromBase64Url(s) ==
  IF Len(s) < 2 THEN <<>>
  ELSE
    LET v(i) == Base64UrlVal(s[i])
        b1 == v(1) * 4 + (v(2) \div 16)
    IN  IF Len(s) = 2 THEN << b1 >>
        ELSE LET b2 == (v(2) % 16) * 16 + (v(3) \div 4)
             IN  IF Len(s) = 3 THEN << b1, b2 >>
                 ELSE << b1, b2, (v(3) % 4) * 64 + v(4) >>
                        \o FromBase64Url(SubSeq(s, 5, Len(s)))

\* a byte sequence without its leading 0x00 bytes
RECURSIVE StripZeroBytes(_)
StripZeroBytes(b) ==
  IF b # <<>> /\ Head(b) = 0 THEN StripZeroBytes(Tail(b)) ELSE b

\* the number a string of hex digits denotes
RECURSIVE HexNum(_)
HexNum(s) ==
  IF s = <<>> THEN 0
  ELSE HexNum(SubSeq(s, 1, Len(s) - 1)) * 16 + HexVal(s[Len(s)])

\* the number a byte sequence denotes, most significant byte first
RECURSIVE BytesNum(_)
BytesNum(b) ==
  IF b = <<>> THEN 0
  ELSE BytesNum(SubSeq(b, 1, Len(b) - 1)) * 256 + b[Len(b)]

\* the identifiers retrieveAssetFromArweave tries for the locator it got
Ids == PossibleIds(arweaveTransactionId)

\* the first two identifiers encode the bytes of the record's locator: two
\* hex digits per byte without prefix, and base64url without padding
HexAndBase64UrlEncodeLocator ==
  /\ Len(Ids[1]) = 2 * Len(record.arweaveTransactionId)
  /\ BufferFromHex(Ids[1]) = record.arweaveTransactionId
  /\ \A i \in 1..Len(Ids[2]) : Ids[2][i] \notin {"+", "/", "="}
  /\ FromBase64Url(Ids[2]) = record.arweaveTransactionId

\* C19 as stated: the first two identifiers encode the locator's bytes and
\* the third is the hex form without the leading zero bytes: an even
\* number of digits that decodes to the locator minus its leading 0x00
\* bytes, not empty unless the locator is all zero.
CX_C19_ZeroBytesStripped ==
  (Ran("probe") /\ requests[1].id = Ids[1]) =>
    /\ HexAndBase64UrlEncodeLocator
    /\ Len(Ids[3]) % 2 = 0
    /\ BufferFromHex(Ids[3]) = StripZeroBytes(record.arweaveTransactionId)
    /\ BytesNum(record.arweaveTransactionId) # 0 => Ids[3] # <<>>

\* C19 amended: the first two identifiers encode the locator's bytes; the
\* third is the hex form without its leading '0' digits: it does not start
\* with '0', denotes the same number as the locator, is empty exactly for
\* the all-zero locator, and has an odd number of digits exactly when the
\* first non-zero byte of the locator is below 0x10, in which case it is
\* not the hex form of the locator without its leading zero bytes.
C19_ZeroDigitsStripped ==
  (Ran("probe") /\ requests[1].id = Ids[1]) =>
    LET loc  == record.arweaveTransactionId
        rest == StripZeroBytes(loc)
    IN  /\ HexAndBase64UrlEncodeLocator
        /\ Ids[3] # <<>> => Ids[3][1] # "0"
        /\ \E k \in 0..Len(Ids[1]) :
             /\ Ids[1] = [i \in 1..k |-> "0"] \o Ids[3]
        /\ HexNum(Ids[3]) = BytesNum(loc)
        /\ Ids[3] = <<>> <=> BytesNum(loc) = 0
        /\ Len(Ids[3]) % 2 = 1 <=> (rest # <<>> /\ rest[1] < 16)
        /\ Len(Ids[3]) % 2 = 0 => BufferFromHex(Ids[3]) = rest
        /\ Len(Ids[3]) % 2 = 1 => BufferFromHex(Ids[3]) # rest

W_C19_OddDigits ==
  /\ Ran("probe")
  /\ record.arweaveTransactionId[1] = 0
  /\ record.arweaveTransactionId[LocatorBytes] = 1
  /\ Ids[3] = << "1" >>
  /\ \E i \in 1..Len(requests) : requests[i].id = << "1" >>

(***************************************************************************)
(* decryptAsset on a byte buffer.  AES-256-GCM is taken as an ideal        *)
(* authenticated cipher: a ciphertext byte names the key, nonce, position  *)
(* and plaintext byte it was made from, the tag names the key, nonce and   *)
(* ciphertext it was computed over, and a byte with a flipped bit is a     *)
(* different byte.                                                         *)
(***************************************************************************)
\* longest plaintext of the model
MaxPlaintext == 2

\* byte values of a plaintext
PlainVals == {0, 200}

\* bits that may be flipped in a byte (1 = least significant, 8 = most)
FlipBits == {1, 8}

\* the bytes of a nonce
NonceBytes(id) ==
  [i \in 1..12 |-> [part |-> "nonce", of |-> id, i |-> i, flip |-> 0]]

\* cipher.update(plaintext): counter mode, byte i depends on key, nonce,
\* position and plaintext byte
GcmCiphertext(key, nonce, data) ==
  [i \in 1..Len(data) |->
     [part |-> "ct", of |-> << key.id, nonce, data[i] >>, i |-> i,
      flip |-> 0]]

\* cipher.getAuthTag(): 16 bytes over key, nonce and ciphertext
GcmTag(key, nonce, ciphertext) ==
  [i \in 1..16 |->
     [part |-> "tag", of |-> << key.id, nonce, ciphertext >>, i |-> i,
      flip |-> 0]]

\* decipher.update(ciphertext): the plaintext byte where the ciphertext
\* byte is the one made for this key, nonce and position, else some other
\* byte (-1)
GcmUpdate(key, nonce, ciphertext) ==
  [i \in 1..Len(ciphertext) |->
     IF /\ ciphertext[i].part = "ct"
        /\ ciphertext[i].flip = 0
        /\ ciphertext[i].i = i
        /\ ciphertext[i].of[1] = key.id
        /\ ciphertext[i].of[2] = nonce
       THEN ciphertext[i].of[3]
       ELSE -1]

\* Uint8Array.prototype.slice.call(buffer, from, to)
Slice(buffer, range) == SubSeq(buffer, range.from + 1, range.to)

\* decryptAsset on bytes: the length check, the three slices, update and
\* final
DecryptAssetBytes(encryptedData, key) ==
  IF Len(encryptedData) < 12 + 1 + 16
    THEN [ok |-> FALSE, error |-> "Encrypted data too short", data |-> <<>>]
  ELSE
    LET parts      == AssetParts(Len(encryptedData))
        nonce      == Slice(encryptedData, parts.nonce)
        tag        == Slice(encryptedData, parts.tag)
        ciphertext == Slice(encryptedData, parts.ciphertext)
    IN  IF key.len # 32
          THEN [ok |-> FALSE, error |-> "Invalid key length", data |-> <<>>]
        ELSE IF tag # GcmTag(key, nonce, ciphertext)
          THEN [ok |-> FALSE,
                error |-> "Unsupported state or unable to authenticate data",
                data |-> <<>>]
        ELSE [ok |-> TRUE, error |-> "",
              data |-> GcmUpdate(key, nonce, ciphertext)]

PlainSeqs == UNION { [1..n -> PlainVals] : n \in 1..MaxPlaintext }

\* an asset encrypted as nonce || ciphertext || tag under a 32-byte key
InitAsset ==
  /\ plaintext \in PlainSeqs
  /\ assetKey = [id |-> "key", len |-> 32]
  /\ \E n \in {"nonceA", "nonceB"} :
       assetBuffer =
         NonceBytes(n)
           \o GcmCiphertext(assetKey, NonceBytes(n), plaintext)
           \o GcmTag(assetKey, NonceBytes(n),
                     GcmCiphertext(assetKey, NonceBytes(n), plaintext))
  /\ flipped = 0
  /\ assetResult = [ok |-> FALSE, error |-> "", data |-> <<>>]
  /\ apc = "built"
  /\ PipelineNotStarted
  /\ ProviderReturned
  /\ SaveIdle
  /\ RecoveryIdle
  /\ ToolIdle
  /\ AddressIdle
  /\ MenuIdle
  /\ HkdfIdle

\* one bit of one byte of the buffer is flipped before it is decrypted
FlipBit ==
  /\ apc = "built"
  /\ flipped = 0
  /\ \E pos \in 1..Len(assetBuffer) : \E bit \in FlipBits :
       /\ assetBuffer' = [assetBuffer EXCEPT ![pos].flip = bit]
       /\ flipped' = pos
  /\ UNCHANGED << plaintext, assetKey, assetResult, apc, notAssetVars >>

\* the call decryptAsset(assetBuffer, assetKey)
DecryptAssetCall ==
  /\ apc = "built"
  /\ assetResult' = DecryptAssetBytes(assetBuffer, assetKey)
  /\ apc' = "decrypted"
  /\ UNCHANGED << plaintext, assetKey, assetBuffer, flipped, notAssetVars >>

NextAsset == FlipBit \/ DecryptAssetCall

SpecAsset == InitAsset /\ [][NextAsset]_vars

\* C20: decryptAsset applied to nonce || ciphertext || tag of a plaintext
\* of at least one byte returns that plaintext; after one bit of a
\* ciphertext byte or of a tag byte was flipped it throws the
\* authentication error and returns no data.
C20_AssetRoundTrip ==
  apc = "decrypted" =>
    /\ flipped = 0 =>
         /\ assetResult.ok
         /\ assetResult.data = plaintext
         /\ Len(assetResult.data) >= 1
    /\ flipped > 12 =>
         /\ ~assetResult.ok
         /\ assetResult.error = AuthError
         /\ assetResult.data = <<>>

W_C20_TagBitFlipped ==
  /\ apc = "decrypted"
  /\ flipped = Len(assetBuffer)
  /\ Len(plaintext) = 2
  /\ assetResult.error = AuthError

(***************************************************************************)
(* Layout of the key blob, key recovery and the saved file.                *)
(***************************************************************************)
\* a buffer of n bytes, each byte standing for its own position
Positions(n) == [i \in 1..n |-> i]

\* decryptSymmetricKey got past its length check
BlobAccepted ==
  /\ Ran("keyDecrypt")
  /\ KeyBufferLength(beneficiaryKeys) = 32
  /\ KeyBufferLength(encryptedSymmetricKey) >= minimumLength

\* C27: an accepted key blob of n bytes is split into ephemeral public key
\* [0,65), salt [65,97), nonce [97,109), ciphertext [109,n-16) and tag
\* [n-16,n); each part starts where the previous one ends, the first starts
\* at 0, the last ends at n, and the five parts concatenated are the blob.
C27_BlobPartsCoverBlob ==
  BlobAccepted =>
    LET n     == KeyBufferLength(encryptedSymmetricKey)
        parts == BlobParts(n)
        blob  == Positions(n)
    IN  /\ parts.ephemeralPublicKey = [from |-> 0, to |-> 65]
        /\ parts.salt = [from |-> 65, to |-> 97]
        /\ parts.nonce = [from |-> 97, to |-> 109]
        /\ parts.ciphertext = [from |-> 109, to |-> n - 16]
        /\ parts.tag = [from |-> n - 16, to |-> n]
        /\ parts.ciphertext.from < parts.ciphertext.to
        /\ Slice(blob, parts.ephemeralPublicKey) \o Slice(blob, parts.salt)
             \o Slice(blob, parts.nonce) \o Slice(blob, parts.ciphertext)
             \o Slice(blob, parts.tag) = blob

W_C27_Blob158 ==
  /\ BlobAccepted
  /\ KeyBufferLength(encryptedSymmetricKey) = 158
  /\ symmetricKey.len = 33

(***************************************************************************)
(* saveFile called by successive runs of the tool in one directory.        *)
(***************************************************************************)
\* number of runs that reach saveFile
MaxSaves == 2

\* "0x" followed by the given digits and zeros up to 64 digits
IdWithDigits(digits) ==
  <<"0", "x">> \o digits \o [i \in 1..(64 - Len(digits)) |-> "0"]

\* inheritance IDs of the runs: two that agree in their first 6 digits and
\* one that differs in the 6th
SavedIds ==
  { IdWithDigits(<<"a", "b", "c", "d", "e", "f">>),
    IdWithDigits(<<"a", "b", "c", "d", "e", "f", "1">>),
    IdWithDigits(<<"a", "b", "c", "d", "e", "0">>) }

SavedExtensions == { "pdf", "bin" }

\* decrypted assets, by name
SavedAssets == { "assetA", "assetB" }

\* fs.writeFileSync(filename, data): the file is created or replaced
WriteFileSync(files0, filename, data) ==
  { f \in files0 : f.name # filename }
    \cup { [name |-> filename, data |-> data] }

InitSave ==
  /\ disk = {}
  /\ saveCalls = << >>
  /\ PipelineNotStarted
  /\ ProviderReturned
  /\ AssetIdle
  /\ RecoveryIdle
  /\ ToolIdle
  /\ AddressIdle
  /\ MenuIdle
  /\ HkdfIdle

\* saveFile(data, inheritanceId, fileExtension) of one run
SaveFileCall ==
  /\ Len(saveCalls) < MaxSaves
  /\ \E id \in SavedIds : \E ext \in SavedExtensions : \E data \in SavedAssets :
       /\ disk' = WriteFileSync(disk, FileName(id, ext), data)
       /\ saveCalls' = Append(saveCalls,
            [inheritanceId |-> id, fileExtension |-> ext, data |-> data,
             printed |-> FileName(id, ext)])
  /\ UNCHANGED notSaveVars

NextSave == SaveFileCall

SpecSave == InitSave /\ [][NextSave]_vars

\* the 6 hex digits after the "0x" of an ID
SixDigits(id) == SubSeq(id, 3, 8)

\* the last call among the first n whose ID has the 6 digits and extension
\* of call i
LastLike(i) ==
  CHOOSE j \in 1..Len(saveCalls) :
    /\ SixDigits(saveCalls[j].inheritanceId) = SixDigits(saveCalls[i].inheritanceId)
    /\ saveCalls[j].fileExtension = saveCalls[i].fileExtension
    /\ \A k \in (j + 1)..Len(saveCalls) :
         \/ SixDigits(saveCalls[k].inheritanceId)
              # SixDigits(saveCalls[i].inheritanceId)
         \/ saveCalls[k].fileExtension # saveCalls[i].fileExtension

\* C26: every call of saveFile writes the file 'inheritance_' + "0x" + the
\* first 6 hex digits of the ID + '.' + extension; the directory holds one
\* file per combination of 6 digits and extension that was saved, and its
\* content is the data of the latest call with that combination, so a run
\* whose ID shares the 6 digits and the extension of an earlier one
\* replaces the earlier file.
C26_FileNameFromPrefix ==
  /\ \A i \in 1..Len(saveCalls) :
       LET c    == saveCalls[i]
           name == <<"inheritance_", "0", "x">> \o SixDigits(c.inheritanceId)
                     \o <<".", c.fileExtension>>
       IN  /\ c.printed = name
           /\ [name |-> name, data |-> saveCalls[LastLike(i)].data] \in disk
           /\ \A f \in disk : f.name = name
                => f.data = saveCalls[LastLike(i)].data
  /\ Cardinality(disk) =
       Cardinality({ << SixDigits(saveCalls[i].inheritanceId),
                        saveCalls[i].fileExtension >> :
                     i \in 1..Len(saveCalls) })

W_C26_Overwritten ==
  /\ Len(saveCalls) = 2
  /\ saveCalls[1].inheritanceId # saveCalls[2].inheritanceId
  /\ SixDigits(saveCalls[1].inheritanceId) = SixDigits(saveCalls[2].inheritanceId)
  /\ saveCalls[1].fileExtension = saveCalls[2].fileExtension
  /\ saveCalls[1].data = "assetA"
  /\ disk = { [name |-> saveCalls[1].printed, data |-> "assetB"] }

(***************************************************************************)
(* decryptSymmetricKey on a byte buffer.  ECDH, SHA-256 and HMAC are taken *)
(* as ideal: the X coordinate of the shared point names the two key pairs  *)
(* it comes from, a digest names what was hashed.                          *)
(***************************************************************************)
\* key pairs: the beneficiary's, another wallet's, and two ephemeral ones
KeyPairs == { "beneficiary", "stranger" }
EphemeralPairs == { "ephemeralA", "ephemeralB" }

\* the uncompressed public key of a key pair: 65 bytes
PublicKeyBytes(pair) ==
  [i \in 1..65 |-> [part |-> "pub", of |-> pair, i |-> i, flip |-> 0]]

\* a salt of 32 bytes
SaltBytes(id) ==
  [i \in 1..32 |-> [part |-> "salt", of |-> id, i |-> i, flip |-> 0]]

\* the bytes of a symmetric key of the given length
SymmetricKeyBytes(id, length) ==
  [i \in 1..length |-> [part |-> "key", of |-> id, i |-> i, flip |-> 0]]

\* the 32-byte X coordinate of the point shared by two key pairs
SharedX(pairA, pairB) ==
  [i \in 1..32 |-> [part |-> "x", of |-> {pairA, pairB}, i |-> i, flip |-> 0]]

\* ecdh.computeSecret(publicKey) with the private key of a pair: the X
\* coordinate, or << >> when the bytes are no public key
ComputeSecret(pair, publicKey) ==
  IF \E e \in KeyPairs \cup EphemeralPairs : publicKey = PublicKeyBytes(e)
    THEN SharedX(pair, publicKey[1].of)
    ELSE << >>

\* crypto.createHash('sha256').update(data).digest()
Sha256(data) == [sha256 |-> data]

\* crypto.createHmac('sha256', key).update(data).digest()
Hmac(key, data) == [hmac |-> << key, data >>]

\* T(i) of HKDF-Expand: HMAC(PRK, T(i-1) || info || i)
RECURSIVE HkdfT(_, _, _)
HkdfT(prk, info, i) ==
  IF i = 0 THEN << >>
  ELSE Hmac(prk, << HkdfT(prk, info, i - 1), info, i >>)

\* hkdf(ikm, salt, info, length): the blocks T(1..ceil(length / 32)), of
\* which the first length bytes are the output
hkdf(ikm, salt, info, length) ==
  LET prk == Hmac(salt, ikm)
  IN  [ blocks |-> [i \in 1..((length + 31) \div 32) |-> HkdfT(prk, info, i)],
        length |-> length ]

\* the info string of the key derivation
KeyDerivationInfo == "app.inheritor.key-derivation-info"

\* a compressed point marked as having an odd Y coordinate
CompressedPointOdd(x) == << 3 >> \o x

\* Buffer.alloc(33) with 0x02 at offset 0 and x copied to offset 1
CompressedPoint(x) == << 2 >> \o x

\* decryptSymmetricKey on bytes: the length check, the five parts, the key
\* agreement, the derivation and the authenticated decryption
DecryptSymmetricKeyBytes(encryptedKeyBuffer, privateKeyPair) ==
  IF Len(encryptedKeyBuffer) < minimumLength
    THEN [ok |-> FALSE, error |-> "Encrypted key too short", data |-> << >>]
  ELSE
    LET parts == BlobParts(Len(encryptedKeyBuffer))
        ephemeralPublicKey == Slice(encryptedKeyBuffer, parts.ephemeralPublicKey)
        salt           == Slice(encryptedKeyBuffer, parts.salt)
        nonce          == Slice(encryptedKeyBuffer, parts.nonce)
        ciphertext     == Slice(encryptedKeyBuffer, parts.ciphertext)
        tag            == Slice(encryptedKeyBuffer, parts.tag)
        rawSharedPoint == ComputeSecret(privateKeyPair, ephemeralPublicKey)
        x              == IF Len(rawSharedPoint) > 32
                            THEN SubSeq(rawSharedPoint, 1, 32)
                            ELSE rawSharedPoint
        sharedSecret   == Sha256(CompressedPoint(x))
        encryptionKey  == [id |-> hkdf(sharedSecret, salt, KeyDerivationInfo, 32),
                           len |-> 32]
    IN  IF rawSharedPoint = << >>
          THEN [ok |-> FALSE, error |-> "Failed to compute ECDH secret",
                data |-> << >>]
        ELSE IF tag # GcmTag(encryptionKey, nonce, ciphertext)
          THEN [ok |-> FALSE,
                error |-> "Unsupported state or unable to authenticate data",
                data |-> << >>]
        ELSE [ok |-> TRUE, error |-> "",
              data |-> GcmUpdate(encryptionKey, nonce, ciphertext)]

\* the blob an encryptor makes for a recipient: the ephemeral public key,
\* the salt, the nonce, and the key encrypted with AES-256-GCM under
\* HKDF-SHA-256 (salt, info) of the SHA-256 of 0x02 || X
EncryptSymmetricKey(key, ephemeral, to, salt, nonce) ==
  LET secret == Sha256(<< 2 >> \o SharedX(ephemeral, to))
      wrapKey == [id |-> hkdf(secret, salt, KeyDerivationInfo, 32), len |-> 32]
      ciphertext == GcmCiphertext(wrapKey, nonce, key)
  IN  PublicKeyBytes(ephemeral) \o salt \o nonce \o ciphertext
        \o GcmTag(wrapKey, nonce, ciphertext)

InitRecovery ==
  /\ \E id \in {"keyA", "keyB"} : \E length \in {32, 33} :
       wrappedKey = SymmetricKeyBytes(id, length)
  /\ recipient \in KeyPairs
  /\ caller \in KeyPairs
  /\ \E e \in EphemeralPairs : \E s \in {"saltA", "saltB"} :
       keyBlob = EncryptSymmetricKey(wrappedKey, e, recipient, SaltBytes(s),
                                     NonceBytes("nonceA"))
  /\ keyResult = [ok |-> FALSE, error |-> "", data |-> << >>]
  /\ kpc = "built"
  /\ PipelineNotStarted
  /\ ProviderReturned
  /\ AssetIdle
  /\ SaveIdle
  /\ ToolIdle
  /\ AddressIdle
  /\ MenuIdle
  /\ HkdfIdle

\* the call decryptSymmetricKey(keyBlob, private key of caller)
DecryptSymmetricKeyCall ==
  /\ kpc = "built"
  /\ keyResult' = DecryptSymmetricKeyBytes(keyBlob, caller)
  /\ kpc' = "decrypted"
  /\ UNCHANGED << wrappedKey, recipient, caller, keyBlob, notRecoveryVars >>

NextRecovery == DecryptSymmetricKeyCall

SpecRecovery == InitRecovery /\ [][NextRecovery]_vars

\* C21: decryptSymmetricKey applied to a blob made for a recipient under a
\* fresh ephemeral key pair returns exactly the key that was encrypted when
\* it is given the recipient's private key, and throws the authentication
\* error, returning nothing, when given another private key.
C21_KeyRoundTrip ==
  kpc = "decrypted" =>
    /\ caller = recipient =>
         /\ keyResult.ok
         /\ keyResult.data = wrappedKey
    /\ caller # recipient =>
         /\ ~keyResult.ok
         /\ keyResult.error = AuthError
         /\ keyResult.data = << >>

W_C21_Recovered ==
  /\ kpc = "decrypted"
  /\ caller = recipient
  /\ Len(wrappedKey) = 32
  /\ keyResult.data = wrappedKey

(***************************************************************************)
(* The menu operations of the testator tool (Testator.js) and of the check *)
(* tool: one operation of one session, from the menu to its return.        *)
(* Amounts are in szabo (10^12 wei), gas prices in gwei and gas in         *)
(* thousands of gas units, so that a price times a gas amount is an        *)
(* amount.  Transaction fees are not deducted from the balances.           *)
(***************************************************************************)
\* the lines a user types at a yes/no prompt; question() hands them over as typed
Answers == {"yes", "YES", "y", "no"}

\* the address of the tool's wallet, and the beneficiary addresses on record
WalletAddress == "0xAbCd"
RecordedAddresses == {"0xAbCd", "0xabcd"}
ForeignAddress == "0xEeFf"

\* String.prototype.toLowerCase on the lines and the addresses of the model
ToLowerCase(s) ==
  CASE s = "YES" -> "yes"
    [] s = "0xAbCd" -> "0xabcd"
    [] s = "0xEeFf" -> "0xeeff"
    [] OTHER -> s

\* a confirmation that also takes the single letter
ConfirmedByLetter(answer) == ToLowerCase(answer) \in {"yes", "y"}

\* answer.toLowerCase() === 'yes'
Confirmed(answer) == ToLowerCase(answer) = "yes"

Prompt(query, answer) == [query |-> query, answer |-> answer]

\* a transaction handed to sendTransaction or to a contract method
Tx(kind, from, to, value, id, gasLimit) ==
  [kind |-> kind, from |-> from, to |-> to, value |-> value, id |-> id,
   gasLimit |-> gasLimit]

\* feeData.gasPrice, in gwei
GasPrices == {1, 50, 100}

\* what estimateGas answers, in thousands of gas units
EstimatedGas == {50}

\* ethers.parseEther("0.001"), in szabo
MinimumRefundable == 1000

\* a test that lets every balance through
TooLowNever(balance) == balance < 0

\* balance < minimumRefundable
TooLowToRefund(balance) == balance < MinimumRefundable

\* the gas limit of a plain transfer, in thousands of gas units
TransferGasLimit == 21

\* BigInt(Math.floor(Number(estimatedGas) * 1.2))
GasBuffer(estimatedGas) == (estimatedGas * 12) \div 10

\* BigInt(100000), in thousands of gas units
FallbackGasLimit == 100

\* sendTransaction either throws before anything is broadcast or is mined
SendOutcomes == {"rejected", "confirmed"}

\* the balances after a transfer of value between the two wallets
Transferred(w, from, value) ==
  IF from = "gas"
  THEN [tool |-> w.tool + value, gas |-> w.gas - value]
  ELSE [tool |-> w.tool - value, gas |-> w.gas + value]

\* the result of the funding block when the wallet has what it needs
NotFunded(w) ==
  [prompts |-> << >>, reads |-> << >>, sent |-> << >>, thrown |-> "",
   wallets |-> w, funded |-> FALSE, newBalance |-> w.tool]

\* the messages with which sendTransaction throws before anything is sent
SendErrors == {"insufficient funds for intrinsic transaction cost",
               "could not detect network"}

\* the error thrown when the balance read after the transfer is too low
StillShortError(name) ==
  IF name = "checkInheritanceClaimability"
  THEN "Beneficiary wallet still has insufficient funds after transfer"
  ELSE "Testator wallet still has insufficient funds after transfer"

\* error.message.includes('insufficient funds') on the messages of the model;
\* the search is case-sensitive
IncludesInsufficientFunds(message) ==
  message \in {"insufficient funds for intrinsic transaction cost",
               "Testator wallet still has insufficient funds after transfer",
               "Beneficiary wallet still has insufficient funds after transfer",
               "Operation cancelled due to insufficient funds"}

\* the operations whose catch handlers look for 'insufficient funds' first
SortsFundingErrors == {"revokeAllInheritances", "performCheckIn"}

\* the catch of the funding block: what it throws for what it caught
InnerCatch(name, message) ==
  IF name \in SortsFundingErrors /\ IncludesInsufficientFunds(message)
  THEN "Operation cancelled due to insufficient funds"
  ELSE "Fund transfer failed"

\* the catch of the operation: the error line written for what it caught
OuterCatch(name, message) ==
  IF IncludesInsufficientFunds(message)
  THEN IF name \in SortsFundingErrors
       THEN "Operation cancelled due to insufficient funds in gas wallet."
       ELSE "Operation cancelled due to insufficient funds."
  ELSE IF message = "Fund transfer failed"
  THEN IF name = "checkInheritanceClaimability"
       THEN "Unable to transfer funds to beneficiary wallet."
       ELSE "Unable to transfer funds to testator wallet."
  ELSE IF /\ name \in SortsFundingErrors
          /\ message = "Testator wallet still has insufficient funds after transfer"
  THEN "Transfer completed but testator wallet still has insufficient funds."
  ELSE message

\* the funding block after its question was answered
FundAnswered(w, needed, transferAmount, answer, cancelled, name) ==
  LET asked == << Prompt("transfer from gas wallet", answer) >>
      stopped(error, r) ==
        [prompts |-> asked, reads |-> r, sent |-> << >>, thrown |-> error,
         wallets |-> w, funded |-> FALSE, newBalance |-> w.tool]
  IN  IF ~Confirmed(answer)
      THEN { stopped(cancelled, << >>) }
      ELSE IF w.gas < transferAmount
      THEN { stopped(InnerCatch(name, "Insufficient funds in gas wallet"),
                     << "getBalance gas" >>) }
      ELSE { stopped(InnerCatch(name, e), << "getBalance gas" >>)
             : e \in SendErrors }
           \cup
           { [prompts |-> asked,
              reads |-> << "getBalance gas", "getBalance tool" >>,
              sent |-> << Tx("transfer", "gas", "tool", transferAmount, "", 0) >>,
              thrown |-> IF after.tool < needed
                         THEN InnerCatch(name, StillShortError(name))
                         ELSE "",
              wallets |-> after, funded |-> TRUE, newBalance |-> after.tool]
             : after \in { Transferred(w, "gas", transferAmount),
                           [tool |-> 0, gas |-> w.gas - transferAmount] } }

\* the funding block: asks only when the balance is below the threshold
Fund(w, needed, threshold, transferAmount, cancelled, name) ==
  IF ~(w.tool < threshold)
  THEN { NotFunded(w) }
  ELSE UNION { FundAnswered(w, needed, transferAmount, a, cancelled, name)
               : a \in Answers }

\* what an operation leaves behind when it returns
Finish(name, tool, p, r, s, o, obs, w, inh) ==
  /\ operation' = [name |-> name, tool |-> tool]
  /\ prompts' = p
  /\ reads' = r
  /\ sent' = s
  /\ output' = o
  /\ observed' = obs
  /\ wallets' = w
  /\ inheritances' = inh
  /\ tpc' = "done"
  /\ UNCHANGED notToolVars

\* the states of a list of inheritance details
StatesOf(list) == [i \in 1..Len(list) |-> list[i].state]

\* the name of each state
StateNameOf(state) ==
  CASE state = 0 -> "Designated"
    [] state = 1 -> "Claimable"
    [] state = 2 -> "Claimed"
    [] state = 3 -> "Revoked"
    [] state = 4 -> "Purged"

\* the inheritances a contract can hold for the user: up to MaxInheritances
MaxInheritances == 2
InheritanceIds == << "idA", "idB", "idC" >>
InheritanceLists ==
  UNION { { [i \in 1..n |-> [id |-> InheritanceIds[i], state |-> st[i],
                             beneficiaryEOA |-> eoa]]
            : st \in [1..n -> STATE_NAMES], eoa \in RecordedAddresses }
          : n \in 0..MaxInheritances }

InitTool ==
  /\ wallets \in [tool : {0, 500, 1100, 1260, 3000}, gas : {100, 100000}]
  /\ inheritances \in InheritanceLists
  /\ operation = [name |-> "", tool |-> ""]
  /\ prompts = << >>
  /\ reads = << >>
  /\ sent = << >>
  /\ output = << >>
  /\ observed = NothingObserved
  /\ tpc = "menu"
  /\ PipelineNotStarted
  /\ ProviderReturned
  /\ AssetIdle
  /\ SaveIdle
  /\ RecoveryIdle
  /\ AddressIdle
  /\ MenuIdle
  /\ HkdfIdle

\* what an operation has read, as far as it got
Observed(states, balance, gasCost, f) ==
  [states |-> states, balance |-> balance, gasCost |-> gasCost,
   funded |-> f.funded, newBalance |-> f.newBalance, id |-> ""]

\* the error line of the outer catch of an operation
Failed(error) == Log("ERROR", {error}, 0)

(***************************************************************************)
(* revokeAllInheritances                                                   *)
(***************************************************************************)
\* a loop that also revokes inheritances that are Claimable
IsDesignatedOrClaimable(inheritance) == inheritance.state \in {0, 1}

\* inheritance.state === 0
IsDesignated(inheritance) == inheritance.state = 0

\* inheritances.filter(inh => inh.state === 0)
RevocableInheritances(list) == SelectSeq(list, LAMBDA inh : inh.state = 0)

\* gasPrice * (estimatedGas * 5), or the fallback of 0.001 ETH
GasCostsPerRevocation ==
  { gasPrice * (estimatedGas * 5) : gasPrice \in GasPrices,
                                    estimatedGas \in EstimatedGas }
  \cup { 1000 }

\* the gas limit of a revocation, in thousands of gas units
RevocationGasLimit == 500

\* a revocation throws before it is broadcast, is mined and reverts, or is
\* mined and takes effect; the first two end in the catch of the loop body
RevocationOutcomes == {"rejected", "reverted", "confirmed"}

\* the transactions of the revocation loop, in order
RECURSIVE RevocationTxs(_, _, _)
RevocationTxs(list, outcomes, i) ==
  IF i > Len(list) THEN << >>
  ELSE (IF IsDesignated(list[i]) /\ outcomes[i] # "rejected"
        THEN << Tx("revokeInheritance", "tool", "contract", 0, list[i].id,
                   RevocationGasLimit) >>
        ELSE << >>)
       \o RevocationTxs(list, outcomes, i + 1)

\* a loop that gives up at the first revocation that fails
RECURSIVE RevocationLinesUntilFailure(_, _, _)
RevocationLinesUntilFailure(list, outcomes, i) ==
  IF i > Len(list) THEN << Log("Revocation process completed.", {}, 0) >>
  ELSE IF IsDesignated(list[i]) /\ outcomes[i] # "confirmed"
  THEN << Log("Revoking inheritance", {list[i].id}, 0),
          Log("Error revoking inheritance", {list[i].id}, 0) >>
  ELSE (IF IsDesignated(list[i])
        THEN << Log("Revoking inheritance", {list[i].id}, 0),
                Log("successfully revoked!", {list[i].id}, 0) >>
        ELSE << Log("Skipping inheritance", {list[i].id, StateNameOf(list[i].state)},
                    0) >>)
       \o RevocationLinesUntilFailure(list, outcomes, i + 1)

\* the lines of the revocation loop, in order
RECURSIVE RevocationLines(_, _, _)
RevocationLines(list, outcomes, i) ==
  IF i > Len(list) THEN << Log("Revocation process completed.", {}, 0) >>
  ELSE (IF IsDesignated(list[i])
        THEN << Log("Revoking inheritance", {list[i].id}, 0),
                IF outcomes[i] = "confirmed"
                THEN Log("successfully revoked!", {list[i].id}, 0)
                ELSE Log("Error revoking inheritance", {list[i].id}, 0) >>
        ELSE << Log("Skipping inheritance", {list[i].id, StateNameOf(list[i].state)},
                    0) >>)
       \o RevocationLines(list, outcomes, i + 1)

\* the contract after the revocations that took effect
AfterRevocations(list, outcomes) ==
  [i \in 1..Len(list) |->
     IF list[i].state = 0 /\ outcomes[i] = "confirmed"
     THEN [list[i] EXCEPT !.state = 3]
     ELSE list[i]]

RevokeAllInheritances ==
  /\ tpc = "menu"
  /\ \E confirmation \in Answers :
       LET name == "revokeAllInheritances"
           asked == << Prompt("revoke ALL inheritances", confirmation) >>
           states == StatesOf(inheritances)
           revocable == RevocableInheritances(inheritances)
           idle == NotFunded(wallets)
       IN
       IF ~Confirmed(confirmation)
       THEN Finish(name, "testator", asked, << >>, << >>,
                   << Log("Revocation cancelled.", {}, 0) >>,
                   NothingObserved, wallets, inheritances)
       ELSE IF Len(inheritances) = 0
       THEN Finish(name, "testator", asked, << "getTestatorInheritances" >>, << >>,
                   << Log("No inheritances found to revoke.", {}, 0) >>,
                   NothingObserved, wallets, inheritances)
       ELSE \E detailsRead \in BOOLEAN :
         IF ~detailsRead
         THEN Finish(name, "testator", asked,
                     << "getTestatorInheritances", "inheritances" >>, << >>,
                     << Failed("details") >>, NothingObserved, wallets,
                     inheritances)
         ELSE IF Len(revocable) = 0
         THEN Finish(name, "testator", asked,
                     << "getTestatorInheritances", "inheritances",
                        "getBalance tool" >>, << >>,
                     << Log("No revocable inheritances found.", {}, 0) >>,
                     Observed(states, wallets.tool, 0, idle), wallets,
                     inheritances)
         ELSE \E gasCostPerRevocation \in GasCostsPerRevocation :
           LET totalGasNeeded == gasCostPerRevocation * Len(revocable)
               fundAmount == totalGasNeeded * 10
               before == << "getTestatorInheritances", "inheritances",
                            "getBalance tool", "estimateGas" >>
           IN
           \E f \in Fund(wallets, totalGasNeeded, totalGasNeeded, fundAmount,
                         "Revocation cancelled: testator wallet needs ETH for gas",
                         name) :
             IF f.thrown # ""
             THEN Finish(name, "testator", asked \o f.prompts, before \o f.reads,
                         f.sent, << Failed(OuterCatch(name, f.thrown)) >>,
                         Observed(states, wallets.tool, totalGasNeeded, f),
                         f.wallets, inheritances)
             ELSE \E outcomes \in [1..Len(inheritances) -> RevocationOutcomes] :
               LET txs == RevocationTxs(inheritances, outcomes, 1) IN
               Finish(name, "testator", asked \o f.prompts, before \o f.reads,
                      f.sent \o txs,
                      RevocationLines(inheritances, outcomes, 1),
                      Observed(states, wallets.tool, totalGasNeeded, f),
                      f.wallets, AfterRevocations(inheritances, outcomes))

(***************************************************************************)
(* performCheckIn                                                          *)
(***************************************************************************)
\* a transfer of three times the gas cost
TripleTransferAmount(gasCost) == gasCost * 3

\* const transferAmount = gasCost * BigInt(2)
TransferAmount(gasCost) == gasCost * 2

PerformCheckIn ==
  /\ tpc = "menu"
  /\ \E confirmation \in Answers :
       LET name == "performCheckIn"
           asked == << Prompt("check-in", confirmation) >>
           idle == NotFunded(wallets)
       IN
       IF ~Confirmed(confirmation)
       THEN Finish(name, "testator", asked, << >>, << >>,
                   << Log("Check-in cancelled.", {}, 0) >>,
                   NothingObserved, wallets, inheritances)
       ELSE \E estimated \in BOOLEAN :
         IF ~estimated
         THEN Finish(name, "testator", asked,
                     << "getBalance tool", "estimateGas" >>, << >>,
                     << Failed("estimateGas") >>,
                     Observed(<< >>, wallets.tool, 0, idle), wallets,
                     inheritances)
         ELSE \E estimatedGas \in EstimatedGas : \E gasPrice \in GasPrices :
           LET gasBuffer == GasBuffer(estimatedGas)
               gasCost == gasPrice * gasBuffer
               before == << "getBalance tool", "estimateGas", "getFeeData" >>
           IN
           \E f \in Fund(wallets, gasCost, gasCost, TransferAmount(gasCost),
                         "Check-in cancelled: testator wallet needs ETH for gas",
                         name) :
             IF f.thrown # ""
             THEN Finish(name, "testator", asked \o f.prompts, before \o f.reads,
                         f.sent, << Failed(OuterCatch(name, f.thrown)) >>,
                         Observed(<< >>, wallets.tool, gasCost, f),
                         f.wallets, inheritances)
             ELSE \E outcome \in SendOutcomes :
               Finish(name, "testator", asked \o f.prompts, before \o f.reads,
                      f.sent \o
                        (IF outcome = "confirmed"
                         THEN << Tx("checkIn", "tool", "contract", 0, "",
                                    gasBuffer) >>
                         ELSE << >>),
                      << IF outcome = "confirmed"
                         THEN Log("Check-in successful!", {}, 0)
                         ELSE Failed("checkIn") >>,
                      Observed(<< >>, wallets.tool, gasCost, f),
                      f.wallets, inheritances)

(***************************************************************************)
(* removeVerifier                                                          *)
(***************************************************************************)
\* what testatorVerifier answers: the zero address, another address, or an error
VerifierReads == {"zero", "set", "error"}

RemoveVerifier ==
  /\ tpc = "menu"
  /\ \E confirmation \in Answers : \E currentVerifier \in VerifierReads :
     \E continueAnyway \in Answers :
       LET name == "removeVerifier"
           asked == << Prompt("remove your verifier", confirmation) >>
           idle == NotFunded(wallets)
           askedAll == IF currentVerifier = "zero"
                       THEN asked \o << Prompt("Continue anyway?", continueAnyway) >>
                       ELSE asked
       IN
       IF ~Confirmed(confirmation)
       THEN Finish(name, "testator", asked, << >>, << >>,
                   << Log("Operation cancelled.", {}, 0) >>,
                   NothingObserved, wallets, inheritances)
       ELSE IF currentVerifier = "zero" /\ ~Confirmed(continueAnyway)
       THEN Finish(name, "testator", askedAll, << "testatorVerifier" >>, << >>,
                   << Log("You currently have no verifier set.", {}, 0) >>,
                   NothingObserved, wallets, inheritances)
       ELSE \E estimatedGas \in { GasBuffer(e) : e \in EstimatedGas }
                                  \cup { FallbackGasLimit } :
               \E gasPrice \in GasPrices :
                 LET gasCost == gasPrice * estimatedGas
                     before == << "testatorVerifier", "getBalance tool",
                                  "estimateGas", "getFeeData" >>
                 IN
                 \E f \in Fund(wallets, gasCost, gasCost * 3, gasCost * 5,
                               "Operation cancelled: testator wallet needs ETH for gas",
                               name) :
                   IF f.thrown # ""
                   THEN Finish(name, "testator", askedAll \o f.prompts,
                               before \o f.reads, f.sent, << Failed(OuterCatch(name, f.thrown)) >>,
                               Observed(<< >>, wallets.tool, gasCost, f),
                               f.wallets, inheritances)
                   ELSE \E outcome \in SendOutcomes :
                     Finish(name, "testator", askedAll \o f.prompts,
                            before \o f.reads,
                            f.sent \o
                              (IF outcome = "confirmed"
                               THEN << Tx("updateVerifier", "tool", "contract", 0,
                                          "", estimatedGas) >>
                               ELSE << >>),
                            << IF outcome = "confirmed"
                               THEN Log("Verifier has been successfully removed!",
                                        {}, 0)
                               ELSE Failed("updateVerifier") >>,
                            Observed(<< >>, wallets.tool, gasCost, f),
                            f.wallets, inheritances)

(***************************************************************************)
(* refundRemainingEth, of the testator tool and of the check tool          *)
(***************************************************************************)
Tools == {"testator", "check"}

RefundRemainingEth ==
  /\ tpc = "menu"
  /\ \E tool \in Tools :
       LET name == "refundRemainingEth"
           balance == wallets.tool
           idle == NotFunded(wallets)
           seen == Observed(<< >>, balance, 0, idle)
       IN
       IF balance <= 0
       THEN Finish(name, tool, << >>, << "getBalance tool" >>, << >>,
                   << Log("No funds to refund.", {}, 0) >>, seen, wallets,
                   inheritances)
       ELSE IF TooLowToRefund(balance)
       THEN Finish(name, tool, << >>, << "getBalance tool" >>, << >>,
                   << Log("Balance too low to refund reliably", {}, 0) >>, seen,
                   wallets, inheritances)
       ELSE \E confirmation \in Answers :
         LET asked == << Prompt("refund to gas wallet", confirmation) >> IN
         IF ~Confirmed(confirmation)
         THEN Finish(name, tool, asked, << "getBalance tool" >>, << >>,
                     << Log("Refund cancelled.", {}, 0) >>, seen, wallets,
                     inheritances)
         ELSE \E gasPrice \in GasPrices :
           LET gasCost == gasPrice * TransferGasLimit
               buffer == (gasCost * 12) \div 10
               refundAmount == balance - buffer
               before == << "getBalance tool", "getFeeData" >>
               known == Observed(<< >>, balance, gasCost, idle)
           IN
           IF balance <= gasCost
           THEN Finish(name, tool, asked, before, << >>,
                       << Log("Balance too low to cover gas costs. Cannot refund.",
                              {}, 0) >>, known, wallets, inheritances)
           ELSE \E outcome \in SendOutcomes :
             IF refundAmount < 0 \/ outcome = "rejected"
             THEN Finish(name, tool, asked, before, << >>,
                         << Log("Sending back to gas wallet", {}, refundAmount),
                            Failed("refund") >>, known, wallets, inheritances)
             ELSE Finish(name, tool, asked,
                         before \o << "getBalance tool", "getBalance gas" >>,
                         << Tx("transfer", "tool", "gas", refundAmount, "",
                               TransferGasLimit) >>,
                         << Log("Sending back to gas wallet", {}, refundAmount),
                            Log("Refund complete!", {}, 0) >>, known,
                         Transferred(wallets, "tool", refundAmount), inheritances)

(***************************************************************************)
(* displayBeneficiaryInheritances                                          *)
(***************************************************************************)
\* the lines of the loop over the inheritance IDs, from position i on
RECURSIVE DisplayLines(_, _, _, _)
DisplayLines(list, readable, i, index) ==
  IF i > Len(list) THEN << >>
  ELSE IF ~readable[i]
  THEN << Log("Error fetching details for inheritance", {list[i].id}, 0) >>
       \o DisplayLines(list, readable, i + 1, index)
  ELSE IF list[i].state # 3
  THEN << Log("Inheritance ID", {list[i].id}, index),
          Log("State", {list[i].id, StateNameOf(list[i].state)}, index) >>
       \o DisplayLines(list, readable, i + 1, index + 1)
  ELSE DisplayLines(list, readable, i + 1, index)

DisplayBeneficiaryInheritances ==
  /\ tpc = "menu"
  /\ \E fetched \in BOOLEAN :
       LET name == "displayBeneficiaryInheritances"
           enter == << Prompt("Press Enter to return to the main menu...", "") >>
       IN
       IF ~fetched
       THEN Finish(name, "check", enter, << "getBeneficiaryInheritances" >>, << >>,
                   << Failed("Error displaying inheritances") >>,
                   NothingObserved, wallets, inheritances)
       ELSE IF Len(inheritances) = 0
       THEN Finish(name, "check", enter, << "getBeneficiaryInheritances" >>, << >>,
                   << Log("No inheritances found for this beneficiary.", {}, 0) >>,
                   NothingObserved, wallets, inheritances)
       ELSE \E readable \in [1..Len(inheritances) -> BOOLEAN] :
         Finish(name, "check", enter,
                << "getBeneficiaryInheritances", "inheritances" >>, << >>,
                << Log("=== Your Inheritances ===", {}, 0) >>
                \o DisplayLines(inheritances, readable, 1, 1),
                [NothingObserved EXCEPT
                   !.states = [i \in 1..Len(inheritances) |->
                                 IF readable[i] THEN inheritances[i].state
                                 ELSE -1]],
                wallets, inheritances)

(***************************************************************************)
(* checkInheritanceClaimability                                            *)
(***************************************************************************)
\* a comparison of the addresses as they are written
SameAddressAsWritten(beneficiaryEOA, address) == beneficiaryEOA = address

\* beneficiaryEOA.toLowerCase() === beneficiaryKeys.address.toLowerCase()
SameAddress(beneficiaryEOA, address) ==
  ToLowerCase(beneficiaryEOA) = ToLowerCase(address)

\* a chain of state checks that lets Claimable through
ReturnsAtClaimedOnly(state) == state \in {2, 3, 4}

\* the states at which the check returns at once: 1, 2, 3 and 4
ReturnsAt(state) == state \in {1, 2, 3, 4}

\* the line written for each state at which the check returns
StateMessage(state) ==
  CASE state = 1 -> "This inheritance is already CLAIMABLE!"
    [] state = 2 -> "This inheritance has already been CLAIMED!"
    [] state = 3 -> "This inheritance has been REVOKED by the testator."
    [] state = 4 -> "This inheritance has been PURGED from the system."
    [] OTHER -> ""

\* the inheritances whose ID the user can type: the user's own and one of
\* another beneficiary, in any state
Checkable ==
  { inheritances[i] : i \in 1..Len(inheritances) }
  \cup { [id |-> "idX", state |-> st, beneficiaryEOA |-> ForeignAddress]
         : st \in STATE_NAMES }

\* the contract after isClaimable moved an inheritance to a state
AfterIsClaimable(list, id, state) ==
  [i \in 1..Len(list) |->
     IF list[i].id = id THEN [list[i] EXCEPT !.state = state] ELSE list[i]]

CheckInheritanceClaimability ==
  /\ tpc = "menu"
  /\ \E details \in Checkable : \E detailsRead \in BOOLEAN :
       LET name == "checkInheritanceClaimability"
           idle == NotFunded(wallets)
           shown == << Log("Current State", {details.id, StateNameOf(details.state)},
                           details.state),
                       Log("Beneficiary EOA", {details.beneficiaryEOA}, 0) >>
           warned == IF SameAddress(details.beneficiaryEOA, WalletAddress)
                     THEN shown
                     ELSE shown \o
                          << Log("WARNING: You are not the beneficiary of this inheritance!",
                                 {details.beneficiaryEOA, WalletAddress}, 0) >>
           unread == [NothingObserved EXCEPT !.id = details.id]
           read == [unread EXCEPT !.states = << details.state >>]
       IN
       IF ~detailsRead
       THEN Finish(name, "check", << >>, << "inheritances" >>, << >>,
                   << Failed("details") >>, unread, wallets, inheritances)
       ELSE \E continueAnyway \in Answers :
         LET asked == IF SameAddress(details.beneficiaryEOA, WalletAddress)
                      THEN << >>
                      ELSE << Prompt("Continue anyway?", continueAnyway) >>
             seen == [read EXCEPT !.balance = wallets.tool]
         IN
         IF Len(asked) > 0 /\ ~Confirmed(continueAnyway)
         THEN Finish(name, "check", asked, << "inheritances" >>, << >>, warned,
                     read, wallets, inheritances)
         ELSE IF ReturnsAt(details.state)
         THEN Finish(name, "check", asked, << "inheritances", "getBalance tool" >>,
                     << >>,
                     warned \o << Log(StateMessage(details.state), {}, 0) >>,
                     seen, wallets, inheritances)
         ELSE \E estimatedGas \in { GasBuffer(e) : e \in EstimatedGas }
                                  \cup { FallbackGasLimit } :
              \E gasPrice \in GasPrices :
           LET gasCost == gasPrice * estimatedGas
               before == << "inheritances", "getBalance tool", "estimateGas",
                            "getFeeData" >>
           IN
           \E f \in Fund(wallets, gasCost, gasCost, TransferAmount(gasCost),
                         "Check cancelled: beneficiary wallet needs ETH for gas",
                         name) :
             LET known == [Observed(<< details.state >>, wallets.tool, gasCost, f)
                             EXCEPT !.id = details.id]
             IN
             IF f.thrown # ""
             THEN Finish(name, "check", asked \o f.prompts, before \o f.reads,
                         f.sent, warned \o << Failed(OuterCatch(name, f.thrown)) >>, known,
                         f.wallets, inheritances)
             ELSE \E outcome \in SendOutcomes : \E updated \in {0, 1} :
               IF outcome = "rejected"
               THEN Finish(name, "check", asked \o f.prompts, before \o f.reads,
                           f.sent, warned \o << Failed("isClaimable") >>, known,
                           f.wallets, inheritances)
               ELSE Finish(name, "check", asked \o f.prompts,
                           before \o f.reads \o << "inheritances" >>,
                           f.sent \o << Tx("isClaimable", "tool", "contract", 0,
                                           details.id, estimatedGas) >>,
                           warned \o
                           << IF updated = 1
                              THEN Log("RESULT: This inheritance is now CLAIMABLE!",
                                       {}, 0)
                              ELSE Log("RESULT: This inheritance is NOT YET CLAIMABLE.",
                                       {}, 0) >>,
                           known, f.wallets,
                           AfterIsClaimable(inheritances, details.id, updated))

NextTool ==
  \/ RevokeAllInheritances
  \/ PerformCheckIn
  \/ RemoveVerifier
  \/ RefundRemainingEth
  \/ DisplayBeneficiaryInheritances
  \/ CheckInheritanceClaimability

SpecTool == InitTool /\ [][NextTool]_vars

(***************************************************************************)
(* getContractAddressForNetwork, getContractAddressFromProxy and the       *)
(* creation of the contract instance in main.  The three tools share this  *)
(* code word for word.                                                     *)
(***************************************************************************)
ZeroAddress == "0x0000000000000000000000000000000000000000"

\* the addresses the proxy may hold and a user may type
InheritorAddresses == {"0xInheritorA", "0xInheritorB"}

\* what a user may type at 'Please enter the Inheritor contract address'
TypedAddresses == InheritorAddresses \cup {ZeroAddress, "inheritor.eth"}

\* ethers.isAddress on what a user may type
IsAddress(text) == text \in InheritorAddresses \cup {ZeroAddress}

\* what a user may type at 'Please enter an Ethereum RPC URL: ', and the
\* chain each URL leads to
TypedRpcUrls == {"https://mainnet.infura.io/v3/KEY", "https://arb1.arbitrum.io/rpc"}
ChainOf(provider) ==
  IF provider = "https://arb1.arbitrum.io/rpc" THEN ARBITRUM_CHAIN_ID
  ELSE ETHEREUM_CHAIN_ID

\* a test of the code that takes every address
NoCodeNever(address, codeAt) == FALSE

\* code === '0x'
NoCode(address, codeAt) == address \notin codeAt

InitAddress ==
  /\ targetNetwork \in {"ethereum", "arbitrum"}
  /\ ethProvider = ""
  /\ endpointIndex = 0
  /\ tests = << >>
  /\ questions = << >>
  /\ proxyVia = << >>
  /\ contractAddress = ""
  /\ addressSource = ""
  /\ deployed \in SUBSET InheritorAddresses
  /\ contract = ""
  /\ contractReads = << >>
  /\ cpc = "start"
  /\ addressThrown = ""
  /\ PipelineNotStarted
  /\ ProviderReturned
  /\ AssetIdle
  /\ SaveIdle
  /\ RecoveryIdle
  /\ ToolIdle
  /\ MenuIdle
  /\ HkdfIdle

\* the catch of getContractAddressForNetwork: manual entry comes next
ToManualEntry == cpc' = "manual"

\* if (networkConfig.chainId === ETHEREUM_CHAIN_ID) ethProvider = provider
ChooseEthProvider ==
  /\ cpc = "start"
  /\ IF NETWORK_CONFIGS[targetNetwork].chainId = ETHEREUM_CHAIN_ID
     THEN ethProvider' = "provider" /\ cpc' = "proxy"
     ELSE ethProvider' = ethProvider /\ cpc' = "loop"
  /\ UNCHANGED << targetNetwork, endpointIndex, tests, questions, proxyVia,
                  contractAddress, addressSource, deployed, contract,
                  contractReads, addressThrown, notAddressVars >>

\* one iteration of the loop over NETWORK_CONFIGS.ethereum.publicFallbacks:
\* the provider is assigned before its connection is tested
TryPublicEndpoint ==
  /\ cpc = "loop"
  /\ LET endpoint == Fallback(NETWORK_CONFIGS.ethereum, endpointIndex) IN
     \E ok \in BOOLEAN :
       /\ ethProvider' = endpoint
       /\ tests' = Append(tests, [url |-> endpoint, ok |-> ok])
       /\ endpointIndex' = endpointIndex + 1
       /\ cpc' = IF ok \/ endpointIndex + 1 = Len(NETWORK_CONFIGS.ethereum.publicFallbacks)
                 THEN "afterLoop" ELSE "loop"
  /\ UNCHANGED << targetNetwork, questions, proxyVia, contractAddress,
                  addressSource, deployed, contract, contractReads,
                  addressThrown, notAddressVars >>

\* if (!ethProvider): ask for an Ethereum RPC URL and test it
AskEthereumRpc ==
  /\ cpc = "afterLoop"
  /\ IF ethProvider = ""
     THEN \E ethRpcUrl \in TypedRpcUrls : \E ok \in BOOLEAN :
            /\ questions' = Append(questions,
                                   Prompt("Please enter an Ethereum RPC URL: ",
                                          ethRpcUrl))
            /\ ethProvider' = ethRpcUrl
            /\ tests' = Append(tests, [url |-> ethRpcUrl, ok |-> ok])
            /\ IF ok THEN cpc' = "proxy" ELSE ToManualEntry
     ELSE /\ cpc' = "proxy"
          /\ UNCHANGED << questions, ethProvider, tests >>
  /\ UNCHANGED << targetNetwork, endpointIndex, proxyVia, contractAddress,
                  addressSource, deployed, contract, contractReads,
                  addressThrown, notAddressVars >>

\* what getContractAddressFromProxy meets: no answer from the provider, no
\* code at the proxy address, or the address the proxy holds for the chain
ProxyAnswers == {"unreachable", "no proxy"} \cup InheritorAddresses \cup {ZeroAddress}

\* getContractAddressFromProxy(ethProvider, networkConfig.chainId)
QueryProxy ==
  /\ cpc = "proxy"
  /\ proxyVia' = Append(proxyVia, ethProvider)
  /\ \E answer \in ProxyAnswers :
       IF \/ answer \in {"unreachable", "no proxy", ZeroAddress}
          \/ ChainOf(ethProvider) # ETHEREUM_CHAIN_ID
       THEN /\ ToManualEntry
            /\ UNCHANGED << contractAddress, addressSource >>
       ELSE /\ contractAddress' = answer
            /\ addressSource' = "proxy"
            /\ cpc' = "code"
  /\ UNCHANGED << targetNetwork, ethProvider, endpointIndex, tests, questions,
                  deployed, contract, contractReads, addressThrown,
                  notAddressVars >>

\* the catch block: the address is typed and its format is checked
EnterAddress ==
  /\ cpc = "manual"
  /\ \E typed \in TypedAddresses :
       /\ questions' = Append(questions,
                              Prompt("Please enter the Inheritor contract address",
                                     typed))
       /\ contractAddress' = typed
       /\ addressSource' = "manual"
       /\ IF ~IsAddress(typed)
          THEN cpc' = "failed" /\ addressThrown' = "Invalid contract address format"
          ELSE cpc' = "code" /\ addressThrown' = addressThrown
  /\ UNCHANGED << targetNetwork, ethProvider, endpointIndex, tests, proxyVia,
                  deployed, contract, contractReads, notAddressVars >>

\* main: provider.getCode(contractAddress), then new ethers.Contract
CreateContract ==
  /\ cpc = "code"
  /\ IF NoCode(contractAddress, deployed)
     THEN /\ cpc' = "failed"
          /\ addressThrown' = "No contract found at address"
          /\ contract' = contract
     ELSE /\ cpc' = "ready"
          /\ contract' = contractAddress
          /\ addressThrown' = addressThrown
  /\ UNCHANGED << targetNetwork, ethProvider, endpointIndex, tests, questions,
                  proxyVia, contractAddress, addressSource, deployed,
                  contractReads, notAddressVars >>

\* the first call of the tool through the contract instance
CallContract ==
  /\ cpc = "ready"
  /\ contractReads' = Append(contractReads, contract)
  /\ cpc' = "called"
  /\ UNCHANGED << targetNetwork, ethProvider, endpointIndex, tests, questions,
                  proxyVia, contractAddress, addressSource, deployed, contract,
                  addressThrown, notAddressVars >>

NextAddress ==
  \/ ChooseEthProvider
  \/ TryPublicEndpoint
  \/ AskEthereumRpc
  \/ QueryProxy
  \/ EnterAddress
  \/ CreateContract
  \/ CallContract

SpecAddress == InitAddress /\ [][NextAddress]_vars

(***************************************************************************)
(* main from setupProvider to the first contract call: the provider is set *)
(* up, then the contract address is looked up with it.                     *)
(***************************************************************************)
\* main: setupProvider has returned and getContractAddressForNetwork is
\* called with the same networkConfig
StartAddressSearch ==
  /\ ppc = "returned"
  /\ cpc = "idle"
  /\ targetNetwork' = networkConfig
  /\ deployed' \in SUBSET InheritorAddresses
  /\ cpc' = "start"
  /\ UNCHANGED << ethProvider, endpointIndex, tests, questions, proxyVia,
                  contractAddress, addressSource, contract, contractReads,
                  addressThrown, notAddressVars >>

NextSession == NextProvider \/ StartAddressSearch \/ NextAddress

SpecSession == InitProvider /\ [][NextSession]_vars

(***************************************************************************)
(* Properties of the menu operations.                                      *)
(***************************************************************************)
\* the operation that ran
Did(name) == tpc = "done" /\ operation.name = name

\* the transactions of a kind that the operation sent
SentOf(kind) == { k \in 1..Len(sent) : sent[k].kind = kind }

\* the revocations sent for the inheritance at position i of the list read
RevocationsOf(i) ==
  { k \in SentOf("revokeInheritance") : sent[k].id = InheritanceIds[i] }

\* C22: revokeAllInheritances sends revokeInheritance only for inheritances
\* whose state, as read, was Designated (0); for every inheritance read in
\* another state no revocation is sent.
C22_RevokesDesignatedOnly ==
  Did("revokeAllInheritances") =>
    /\ \A k \in SentOf("revokeInheritance") :
         \E i \in 1..Len(observed.states) :
           /\ sent[k].id = InheritanceIds[i]
           /\ observed.states[i] = 0
    /\ \A i \in 1..Len(observed.states) :
         observed.states[i] # 0 => RevocationsOf(i) = {}

\* a run that revoked the Designated inheritance and skipped a Claimable one
W_C22_OneRevokedOneSkipped ==
  /\ Did("revokeAllInheritances")
  /\ observed.states = << 0, 1 >>
  /\ Cardinality(RevocationsOf(1)) = 1
  /\ RevocationsOf(2) = {}
  /\ \E l \in 1..Len(output) :
       output[l].text = "Skipping inheritance" /\ "idB" \in output[l].shows

\* the operations that open with a confirmation prompt, and their prompts
ConfirmedOperations ==
  {"revokeAllInheritances", "performCheckIn", "removeVerifier",
   "refundRemainingEth"}

ConfirmationPrompts ==
  {"revoke ALL inheritances", "check-in", "remove your verifier",
   "refund to gas wallet"}

\* C23: revokeAllInheritances, performCheckIn, removeVerifier and
\* refundRemainingEth (of either tool) send no transaction of any kind unless
\* the answer to the operation's confirmation prompt was 'yes' in some
\* capitalisation.
C23_NoTransactionUnlessYes ==
  (tpc = "done" /\ operation.name \in ConfirmedOperations /\ Len(sent) > 0) =>
    /\ Len(prompts) > 0
    /\ prompts[1].query \in ConfirmationPrompts
    /\ prompts[1].answer \in {"yes", "YES"}

\* the check tool refunded after the answer 'YES'
W_C23_RefundAfterYes ==
  /\ Did("refundRemainingEth")
  /\ operation.tool = "check"
  /\ prompts = << Prompt("refund to gas wallet", "YES") >>
  /\ Len(sent) = 1
  /\ sent[1].kind = "transfer"

\* C24: refundRemainingEth sends no refund when the balance of the tool's
\* wallet is below 0.001 ETH (1000 szabo), or when it does not exceed the gas
\* price times 21000; in both cases the balances stay as they were.
C24_NoRefundBelowThresholds ==
  [][ (/\ tpc = "menu"
       /\ operation'.name = "refundRemainingEth"
       /\ \/ wallets.tool < 1000
          \/ \E gasPrice \in GasPrices :
               /\ observed'.gasCost = gasPrice * 21
               /\ wallets.tool <= gasPrice * 21)
      => (sent' = << >> /\ wallets' = wallets) ]_vars

\* a balance above 0.001 ETH that does not cover the gas of the transfer
W_C24_GasAboveBalance ==
  /\ Did("refundRemainingEth")
  /\ observed.balance = 1100
  /\ observed.gasCost = 2100
  /\ prompts = << Prompt("refund to gas wallet", "yes") >>
  /\ sent = << >>
  /\ wallets.tool = 1100
  /\ output[Len(output)].text = "Balance too low to cover gas costs. Cannot refund."

\* the list positions whose details displayBeneficiaryInheritances could read
ReadablePositions == { i \in 1..Len(observed.states) : observed.states[i] # -1 }

\* the numbered entries of the listing, in the order written
ListedEntries ==
  SelectSeq(output, LAMBDA line : line.text = "Inheritance ID")

\* C25: 'Show received Inheritances' lists every ID returned by
\* getBeneficiaryInheritances whose details can be read, whatever its state,
\* and numbers the entries 1..k without gaps.
CX_C25_AllReadableListed ==
  Did("displayBeneficiaryInheritances") =>
    /\ \A i \in ReadablePositions :
         \E k \in 1..Len(ListedEntries) :
           InheritanceIds[i] \in ListedEntries[k].shows
    /\ \A k \in 1..Len(ListedEntries) : ListedEntries[k].num = k

\* the closing line of checkInheritanceClaimability
LastLine == output[Len(output)].text

\* checkInheritanceClaimability got as far as reading the wallet's balance
ReachedStateCheck == \E r \in 1..Len(reads) : reads[r] = "getBalance tool"

FundedByDouble == {"performCheckIn", "checkInheritanceClaimability"}

\* C29: performCheckIn and checkInheritanceClaimability send their contract
\* transaction (checkIn, isClaimable) only if the wallet's balance, when
\* checked, was at least the gas cost, or a funding transfer of exactly twice
\* the gas cost went out first and the balance read after it is at least the
\* gas cost; when the wallet needs funding and the user declines, or the gas
\* wallet holds less than twice the gas cost, nothing is sent.
C29_FundedBeforeContractCall ==
  [][ (tpc = "menu" /\ operation'.name \in FundedByDouble) =>
        LET gasCost == observed'.gasCost
            contractCalls == { k \in 1..Len(sent') :
                                 sent'[k].kind \in {"checkIn", "isClaimable"} }
            declined == \E p \in 1..Len(prompts') :
                          /\ prompts'[p].query = "transfer from gas wallet"
                          /\ prompts'[p].answer \notin {"yes", "YES"}
        IN  /\ \A k \in contractCalls :
                 \/ /\ gasCost > 0
                    /\ wallets.tool >= gasCost
                    /\ Len(sent') = 1
                 \/ /\ k = 2
                    /\ sent'[1].kind = "transfer"
                    /\ sent'[1].from = "gas"
                    /\ sent'[1].value = 2 * gasCost
                    /\ observed'.newBalance >= gasCost
            /\ (/\ gasCost > 0
                /\ wallets.tool < gasCost
                /\ declined \/ wallets.gas < 2 * gasCost)
               => (sent' = << >> /\ wallets' = wallets) ]_vars

\* a check-in by an empty wallet that was funded with twice the gas cost
W_C29_FundedCheckIn ==
  /\ Did("performCheckIn")
  /\ observed.balance = 0
  /\ observed.gasCost = 60
  /\ observed.newBalance = 120
  /\ Len(sent) = 2
  /\ sent[1].kind = "transfer" /\ sent[1].value = 120
  /\ sent[2].kind = "checkIn"

\* the beneficiary addresses that checkInheritanceClaimability printed
ShownBeneficiary ==
  UNION { output[l].shows : l \in { m \in 1..Len(output) :
                                      output[m].text = "Beneficiary EOA" } }

\* the warning about the beneficiary was written
Warned ==
  \E l \in 1..Len(output) :
    output[l].text = "WARNING: You are not the beneficiary of this inheritance!"

\* the user was asked whether to continue
AskedToContinue ==
  \E p \in 1..Len(prompts) : prompts[p].query = "Continue anyway?"

\* C30: when the record's beneficiaryEOA differs from the caller's address,
\* letter case aside, checkInheritanceClaimability warns and asks, and
\* unless the answer is 'yes' it returns without reading a balance and
\* without sending anything; when the addresses match it does not ask.
C30_MismatchWarnsAndAsks ==
  (Did("checkInheritanceClaimability") /\ ShownBeneficiary # {}) =>
    IF ShownBeneficiary \subseteq {"0xAbCd", "0xabcd"}
    THEN ~AskedToContinue /\ ~Warned
    ELSE /\ Warned
         /\ prompts[1].query = "Continue anyway?"
         /\ prompts[1].answer \notin {"yes", "YES"} =>
              /\ reads = << "inheritances" >>
              /\ sent = << >>

\* the user declined to go on with an inheritance of another beneficiary
W_C30_DeclinedForeign ==
  /\ Did("checkInheritanceClaimability")
  /\ observed.id = "idX"
  /\ ShownBeneficiary = {"0xEeFf"}
  /\ Warned
  /\ prompts = << Prompt("Continue anyway?", "no") >>
  /\ reads = << "inheritances" >>
  /\ sent = << >>

\* the revocation loop of revokeAllInheritances was entered: the costs were
\* estimated and nothing was thrown on the way to the loop
ReachedRevocationLoop ==
  /\ Did("revokeAllInheritances")
  /\ observed.gasCost > 0
  /\ \A l \in 1..Len(output) : output[l].text # "ERROR"

\* the IDs of the inheritances read as Designated, in the order fetched
RECURSIVE DesignatedIds(_)
DesignatedIds(i) ==
  IF i > Len(observed.states) THEN << >>
  ELSE (IF observed.states[i] = 0 THEN << InheritanceIds[i] >> ELSE << >>)
       \o DesignatedIds(i + 1)

\* the lines that open a revocation attempt, in the order written
AttemptLines == SelectSeq(output, LAMBDA line : line.text = "Revoking inheritance")

\* C31: once the revocation loop is reached, every inheritance read as
\* Designated gets exactly one revokeInheritance attempt, in the order the
\* IDs were fetched, whether or not earlier attempts failed, and the last
\* line written is 'Revocation process completed.'.
C31_OneAttemptEachInOrder ==
  ReachedRevocationLoop =>
    /\ Len(AttemptLines) = Len(DesignatedIds(1))
    /\ \A k \in 1..Len(AttemptLines) :
         AttemptLines[k].shows = { DesignatedIds(1)[k] }
    /\ output[Len(output)].text = "Revocation process completed."

\* the first of two revocations reverted and the second one went through
W_C31_SecondAfterFailedFirst ==
  /\ ReachedRevocationLoop
  /\ observed.states = << 0, 0 >>
  /\ Len(sent) >= 2
  /\ output = << Log("Revoking inheritance", {"idA"}, 0),
                 Log("Error revoking inheritance", {"idA"}, 0),
                 Log("Revoking inheritance", {"idB"}, 0),
                 Log("successfully revoked!", {"idB"}, 0),
                 Log("Revocation process completed.", {}, 0) >>
  /\ inheritances[1].state = 0
  /\ inheritances[2].state = 3

\* the funding transfer went out and the balance read after it is still
\* below what the operation needs
StillShortAfterTransfer ==
  /\ operation.name \in {"revokeAllInheritances", "performCheckIn"}
  /\ tpc = "done"
  /\ observed.funded
  /\ observed.newBalance < observed.gasCost

\* C32: in revokeAllInheritances and performCheckIn, when the funding
\* transfer is confirmed but the balance read after it is still below the gas
\* needed, the operation ends with the error 'Transfer completed but
\* testator wallet still has insufficient funds', and with no other error.
CX_C32_StillShortReported ==
  StillShortAfterTransfer =>
    output =
      << Failed("Transfer completed but testator wallet still has insufficient funds.") >>

(***************************************************************************)
(* Properties of the search for the contract address.                      *)
(***************************************************************************)
\* the connection tests of all three public Ethereum endpoints failed
AllPublicEndpointsFailed ==
  /\ targetNetwork = "arbitrum"
  /\ Len(tests) >= 3
  /\ \A i \in 1..3 :
       /\ tests[i].url = NETWORK_CONFIGS.ethereum.publicFallbacks[i]
       /\ ~tests[i].ok

\* C33: with Arbitrum selected, when the connection test fails for all three
\* public Ethereum endpoints, the user is asked for an Ethereum RPC URL and
\* the proxy is queried through that URL.
CX_C33_AskedForEthereumRpc ==
  (AllPublicEndpointsFailed /\ cpc \notin {"loop", "afterLoop"}) =>
    /\ Len(questions) > 0
    /\ questions[1].query = "Please enter an Ethereum RPC URL: "
    /\ \A k \in 1..Len(proxyVia) : proxyVia[k] = questions[1].answer

\* the last question asked was for the contract address, and this was typed
TypedAsAddress(address) ==
  /\ Len(questions) > 0
  /\ questions[Len(questions)] =
       Prompt("Please enter the Inheritor contract address", address)

\* C34: a contract instance is created, and a contract call issued, only for
\* an address at which code was found on the selected network; the address
\* is the non-zero address the proxy returned or, after a failure of the
\* proxy lookup, an address typed by the user that has the format of an
\* address.
C34_ContractOnlyWhereCodeIs ==
  /\ contract # "" =>
       /\ contract \in deployed
       /\ contract = contractAddress
       /\ \/ /\ addressSource = "proxy"
             /\ contract # ZeroAddress
             /\ ~TypedAsAddress(contract)
          \/ /\ addressSource = "manual"
             /\ TypedAsAddress(contract)
             /\ contract \in {"0xInheritorA", "0xInheritorB", ZeroAddress}
  /\ \A k \in 1..Len(contractReads) :
       contract # "" /\ contractReads[k] = contract

\* the proxy was in maintenance mode, the user typed an address with code,
\* and the tool called the contract there
W_C34_TypedAfterProxyFailure ==
  /\ cpc = "called"
  /\ targetNetwork = "ethereum"
  /\ proxyVia = << "provider" >>
  /\ addressSource = "manual"
  /\ contract = "0xInheritorB"
  /\ contractReads = << "0xInheritorB" >>

(***************************************************************************)
(* Properties of setupProvider in the session.                             *)
(***************************************************************************)
\* the chain ID of the network the user selected
SelectedChainId ==
  IF networkConfig = "ethereum" THEN 1 ELSE 42161

\* the chain on which a provider of the address search answers
ChainReadVia(via) ==
  IF via = "provider" THEN providerChainId
  ELSE IF via = "https://arb1.arbitrum.io/rpc" THEN 42161
  ELSE 1

\* setupProvider returns only with the chain ID of the selected network, and
\* the Inheritor contract is called only through the provider it returned
ReturnsSelectedChainOnly ==
  /\ ppc = "returned" => providerChainId = SelectedChainId
  /\ (ppc = "failed" /\ connected) =>
       /\ providerChainId # SelectedChainId
       /\ providerThrown = WrongNetworkError
  /\ (contract # "" \/ Len(contractReads) > 0) =>
       /\ ppc = "returned"
       /\ targetNetwork = networkConfig

\* C35 as stated: setupProvider returns a provider only if the chain ID it
\* reports is that of the selected network and throws otherwise, and no
\* contract is ever read on another network than the selected one.
CX_C35_NoReadOnOtherNetwork ==
  /\ ReturnsSelectedChainOnly
  /\ addressSource = "proxy" =>
       ChainReadVia(proxyVia[Len(proxyVia)]) = SelectedChainId

\* C35 amended: setupProvider returns a provider only if the chain ID it
\* reports is that of the selected network and throws otherwise; the
\* Inheritor contract is read only through that provider, while the proxy
\* contract is always read on Ethereum, also when Arbitrum is selected.
C35_SelectedChainExceptProxy ==
  /\ ReturnsSelectedChainOnly
  /\ addressSource = "proxy" =>
       ChainReadVia(proxyVia[Len(proxyVia)]) = 1

\* with Arbitrum selected the proxy was read on Ethereum and the Inheritor
\* contract was called on Arbitrum
W_C35_ArbitrumWithProxyOnEthereum ==
  /\ networkConfig = "arbitrum"
  /\ ppc = "returned"
  /\ providerChainId = 42161
  /\ addressSource = "proxy"
  /\ proxyVia = << "https://eth.llamarpc.com" >>
  /\ cpc = "called"

\* the public endpoints configured for the selected network
PublicFallbacks == NETWORK_CONFIGS[networkConfig].publicFallbacks

\* after the first attempt, attempt k goes to the k-th public endpoint
LaterAttemptsByPosition ==
  \A k \in 2..Len(tried) : tried[k] = PublicFallbacks[k]

\* with public endpoints chosen, every attempt k goes to the k-th of them
PublicInOrder ==
  (ppc # "choice" /\ rpcChoice # "1") =>
    /\ Len(tried) > 0 => tried[1] = PublicFallbacks[1]
    /\ LaterAttemptsByPosition

\* C36 as stated: when the user's own RPC URL fails, the next attempts use
\* the second and then the third public endpoint, and the first public
\* endpoint is never attempted in that call; with public endpoints chosen
\* the attempts go through endpoints 1, 2, 3 in order.
CX_C36_FirstNeverAttempted ==
  /\ PublicInOrder
  /\ rpcChoice = "1" =>
       /\ LaterAttemptsByPosition
       /\ \A k \in 1..Len(tried) : tried[k] # PublicFallbacks[1]

\* C36 amended: as stated, except that the first public endpoint is
\* attempted when the URL the user typed is that endpoint; it is never used
\* as an alternative after a failure.
C36_FallbacksByPosition ==
  /\ PublicInOrder
  /\ rpcChoice = "1" =>
       /\ LaterAttemptsByPosition
       /\ \A k \in 2..Len(tried) : tried[k] # PublicFallbacks[1]
       /\ (Len(tried) > 0 /\ tried[1] # PublicFallbacks[1]) =>
            \A k \in 1..Len(tried) : tried[k] # PublicFallbacks[1]

\* the user's own URL failed and the second and third public endpoints
\* were tried after it
W_C36_CustomThenSecondThird ==
  /\ rpcChoice = "1"
  /\ networkConfig = "ethereum"
  /\ tried = << "https://mainnet.infura.io/v3/KEY", "https://rpc.ankr.com/eth",
                "https://cloudflare-eth.com" >>

\* ---------------------------------------------------------------------------
\* The main menu of the Testator tool and of the Beneficiary Check tool
\* ---------------------------------------------------------------------------

\* how many turns of the menu loop are followed
MaxRounds == 3

\* the tools with a main menu loop
MenuTools == {"testator", "check"}

\* what a user may type at 'Choose an action'
TypedChoices == {"1", "2", "3", "4", "5", "6", "7"}

\* what a user may type at 'Enter the Inheritance ID'
TypedInheritanceIds == {"0x5f2a...(64 hex digits)", "0x5f2a", "5f2a"}

\* /^0x[a-fA-F0-9]{64}$/.test(inheritanceId)
IsInheritanceId(text) == text = "0x5f2a...(64 hex digits)"

\* whether the contract reads and transactions of an action succeed
RpcOutcomes == {"ok", "fails"}

\* the case label of the switch that a typed choice selects in each tool
CaseOf(tool, typed) ==
  IF tool = "testator"
  THEN CASE typed = "1" -> "viewDigitalWill"
         [] typed = "2" -> "revokeAllInheritances"
         [] typed = "3" -> "performCheckIn"
         [] typed = "4" -> "removeVerifier"
         [] typed = "5" -> "refundRemainingEth"
         [] typed = "6" -> "exit"
         [] OTHER -> "default"
  ELSE CASE typed = "1" -> "displayBeneficiaryInheritances"
         [] typed = "2" -> "checkInheritanceClaimability"
         [] typed = "3" -> "refundRemainingEth"
         [] typed = "4" -> "exit"
         [] OTHER -> "default"

\* one turn of the menu loop: the choice, the action it ran ("" if none), the
\* error raised inside it ("" if none) and who handled the error
Round(typed, action, error, handledBy) ==
  [typed |-> typed, action |-> action, error |-> error,
   handledBy |-> handledBy]

\* the menu was shown and the next choice is read
AtMenu(tool) ==
  /\ mpc = "menu"
  /\ running
  /\ menuTool = tool
  /\ Len(rounds) < MaxRounds

\* break: the loop goes on to its next turn
BackToMenu(round) ==
  /\ rounds' = Append(rounds, round)
  /\ UNCHANGED << menuTool, running, caught, rlClosed, mpc >>

\* catch (error) { console.error('\nError:', error.message) } finally
\* { rl.close() } of main: the loop is left and the program ends
CaughtInMain(round) ==
  /\ rounds' = Append(rounds, round)
  /\ caught' = round.error
  /\ rlClosed' = TRUE
  /\ mpc' = "ended"
  /\ UNCHANGED << menuTool, running >>

\* the menu after main's menu setup: provider, wallets and contract exist
InitMenu ==
  /\ menuTool \in MenuTools
  /\ running = TRUE
  /\ rounds = << >>
  /\ caught = ""
  /\ rlClosed = FALSE
  /\ mpc = "menu"
  /\ PipelineNotStarted
  /\ ProviderReturned
  /\ AssetIdle
  /\ SaveIdle
  /\ RecoveryIdle
  /\ ToolIdle
  /\ AddressIdle
  /\ HkdfIdle

\* viewDigitalWill: the list of inheritances always comes back (events, else
\* the mapping); with an empty list it returns; otherwise it reads the
\* check-in data and each inheritance with no try around the reads
ViewDigitalWill(typed, found, rpc) ==
  IF found = 0
  THEN BackToMenu(Round(typed, "viewDigitalWill", "", ""))
  ELSE IF rpc = "fails"
  THEN CaughtInMain(Round(typed, "viewDigitalWill", "rpc", "main"))
  ELSE BackToMenu(Round(typed, "viewDigitalWill", "", ""))

\* case '1' of the Testator tool
ChooseViewDigitalWill ==
  /\ AtMenu("testator")
  /\ \E typed \in TypedChoices, found \in 0..1, rpc \in RpcOutcomes :
       /\ CaseOf("testator", typed) = "viewDigitalWill"
       /\ ViewDigitalWill(typed, found, rpc)
  /\ UNCHANGED notMenuVars

\* an action whose body is one try with a catch that prints the error
GuardedAction(typed, action, rpc) ==
  BackToMenu(Round(typed, action,
                   IF rpc = "fails" THEN "rpc" ELSE "",
                   IF rpc = "fails" THEN "action" ELSE ""))

\* cases '2' to '5' of the Testator tool
ChooseTestatorAction ==
  /\ AtMenu("testator")
  /\ \E typed \in TypedChoices, rpc \in RpcOutcomes :
       /\ CaseOf("testator", typed) \in
            {"revokeAllInheritances", "performCheckIn", "removeVerifier",
             "refundRemainingEth"}
       /\ GuardedAction(typed, CaseOf("testator", typed), rpc)
  /\ UNCHANGED notMenuVars

\* cases '1' and '3' of the Check tool
ChooseCheckAction ==
  /\ AtMenu("check")
  /\ \E typed \in TypedChoices, rpc \in RpcOutcomes :
       /\ CaseOf("check", typed) \in
            {"displayBeneficiaryInheritances", "refundRemainingEth"}
       /\ GuardedAction(typed, CaseOf("check", typed), rpc)
  /\ UNCHANGED notMenuVars

\* case '2' of the Check tool: the ID is asked for and tested before the call
ChooseCheckInheritanceClaimability ==
  /\ AtMenu("check")
  /\ \E typed \in TypedChoices, id \in TypedInheritanceIds,
        rpc \in RpcOutcomes :
       /\ CaseOf("check", typed) = "checkInheritanceClaimability"
       /\ IF IsInheritanceId(id)
          THEN GuardedAction(typed, "checkInheritanceClaimability", rpc)
          ELSE BackToMenu(Round(typed, "", "", ""))
  /\ UNCHANGED notMenuVars

\* default of the switch: 'Invalid choice'
InvalidChoice ==
  /\ mpc = "menu"
  /\ running
  /\ Len(rounds) < MaxRounds
  /\ \E typed \in TypedChoices :
       /\ CaseOf(menuTool, typed) = "default"
       /\ BackToMenu(Round(typed, "", "", ""))
  /\ UNCHANGED notMenuVars

\* the Exit case: running = false ends the loop, and finally closes readline
ChooseExit ==
  /\ mpc = "menu"
  /\ running
  /\ Len(rounds) < MaxRounds
  /\ \E typed \in TypedChoices :
       /\ CaseOf(menuTool, typed) = "exit"
       /\ rounds' = Append(rounds, Round(typed, "exit", "", ""))
  /\ running' = FALSE
  /\ rlClosed' = TRUE
  /\ mpc' = "ended"
  /\ UNCHANGED << menuTool, caught >>
  /\ UNCHANGED notMenuVars

NextMenu ==
  \/ ChooseViewDigitalWill
  \/ ChooseTestatorAction
  \/ ChooseCheckAction
  \/ ChooseCheckInheritanceClaimability
  \/ InvalidChoice
  \/ ChooseExit

SpecMenu == InitMenu /\ [][NextMenu]_vars

\* the last turn of the menu loop
LastRound == rounds[Len(rounds)]

\* C37: in the Testator and Check tools the menu loop ends only when Exit is
\* selected: an error raised inside a menu action is handled in the action and
\* the menu comes back, and readline is closed however the loop ends
CX_C37_LoopEndsOnlyAtExit ==
  /\ mpc = "ended" => rlClosed /\ LastRound.action = "exit"
  /\ \A i \in 1..Len(rounds) :
       rounds[i].error # "" => rounds[i].handledBy = "action"

\* the value of the refund transaction that refundRemainingEth sent
RefundValue == sent[1].value

\* C38: whenever refundRemainingEth sends the refund, the value sent is
\* balance - floor(gasCost * 12 / 10), is strictly positive, and together
\* with the gas cost does not exceed the balance
CX_C38_RefundPositive ==
  Did("refundRemainingEth") /\ SentOf("transfer") # {} =>
    /\ RefundValue = observed.balance - (observed.gasCost * 12) \div 10
    /\ RefundValue > 0
    /\ RefundValue + observed.gasCost <= observed.balance

\* a refund of nothing was sent: the balance was exactly the buffer
ZeroRefundSent ==
  /\ Did("refundRemainingEth")
  /\ SentOf("transfer") # {}
  /\ RefundValue = 0
  /\ observed.balance = (observed.gasCost * 12) \div 10

\* ---------------------------------------------------------------------------
\* hkdf, followed round by round
\* ---------------------------------------------------------------------------

\* the longest output asked of hkdf
MaxLength == 65

\* the bytes of a SHA-256 digest
DigestLength == 32

\* the arguments hkdf is called with
HkdfCalls ==
  [ikm : {"sharedSecretA", "sharedSecretB"}, salt : {"saltA", "saltB"},
   info : {KeyDerivationInfo, ""}, length : 0..MaxLength]

\* Buffer.alloc(length): length zero bytes
Alloc(length) == [k \in 1..length |-> 0]

\* byte j (from 0) of a digest
ByteOf(digest, j) == [of |-> digest, at |-> j]

\* source.copy(target, targetStart, 0, sourceEnd) of a digest into a buffer
Copy(digest, target, targetStart, sourceEnd) ==
  [k \in 1..Len(target) |->
     IF k - 1 >= targetStart /\ k - 1 < targetStart + sourceEnd
     THEN ByteOf(digest, k - 1 - targetStart)
     ELSE target[k]]

\* Math.min
Min(a, b) == IF a < b THEN a ELSE b

\* Math.ceil(length / 32)
Rounds(length) == (length + DigestLength - 1) \div DigestLength

\* Buffer.from([i]): one byte
ByteFrom(i) == i % 256

\* a test of the code that leaves the previous block out of the data
RoundDataWithoutPrevious(previous, info, i) == << << >>, info, ByteFrom(i) >>

\* Buffer.concat([t, info, Buffer.from([i])])
RoundData(previous, info, i) == << previous, info, ByteFrom(i) >>

\* hkdf is called
InitHkdf ==
  /\ hkdfArgs \in HkdfCalls
  /\ hkdfPrk = << >>
  /\ okm = << >>
  /\ tBlock = << >>
  /\ offset = 0
  /\ hkdfRound = 0
  /\ hpc = "called"
  /\ PipelineNotStarted
  /\ ProviderReturned
  /\ AssetIdle
  /\ SaveIdle
  /\ RecoveryIdle
  /\ ToolIdle
  /\ AddressIdle
  /\ MenuIdle

\* HKDF-Extract and the set-up of the expand loop
HkdfExtract ==
  /\ hpc = "called"
  /\ hkdfPrk' = Hmac(hkdfArgs.salt, hkdfArgs.ikm)
  /\ okm' = Alloc(hkdfArgs.length)
  /\ tBlock' = << >>
  /\ offset' = 0
  /\ hkdfRound' = 1
  /\ hpc' = "expand"
  /\ UNCHANGED hkdfArgs
  /\ UNCHANGED notHkdfVars

\* one turn of the expand loop
HkdfExpand ==
  /\ hpc = "expand"
  /\ hkdfRound <= Rounds(hkdfArgs.length)
  /\ LET digest == Hmac(hkdfPrk, RoundData(tBlock, hkdfArgs.info, hkdfRound))
     IN  /\ tBlock' = digest
         /\ okm' = Copy(digest, okm, offset,
                        Min(DigestLength, hkdfArgs.length - offset))
  /\ offset' = offset + DigestLength
  /\ hkdfRound' = hkdfRound + 1
  /\ UNCHANGED << hkdfArgs, hkdfPrk, hpc >>
  /\ UNCHANGED notHkdfVars

\* the loop is over: return okm
HkdfReturn ==
  /\ hpc = "expand"
  /\ hkdfRound > Rounds(hkdfArgs.length)
  /\ hpc' = "returned"
  /\ UNCHANGED << hkdfArgs, hkdfPrk, okm, tBlock, offset, hkdfRound >>
  /\ UNCHANGED notHkdfVars

NextHkdf ==
  \/ HkdfExtract
  \/ HkdfExpand
  \/ HkdfReturn

SpecHkdf == InitHkdf /\ [][NextHkdf]_vars

\* T(i) as the claim defines it, from PRK = HMAC(salt, ikm): T(0) is empty and
\* T(i) = HMAC(PRK, T(i-1) || info || byte(i))
RECURSIVE ClaimedT(_, _)
ClaimedT(call, i) ==
  IF i = 0 THEN << >>
  ELSE [hmac |-> << [hmac |-> << call.salt, call.ikm >>],
                    << ClaimedT(call, i - 1), call.info, i >> >>]

\* byte k (from 1) of T(1) || T(2) || ...
ClaimedByte(call, k) ==
  [of |-> ClaimedT(call, ((k - 1) \div 32) + 1), at |-> (k - 1) % 32]

\* the expand rounds that ran
RoundsRun == hkdfRound - 1

\* C39: hkdf(ikm, salt, info, L) returns exactly L bytes, the first L bytes of
\* T(1) || T(2) || ..., after ceil(L / 32) expand rounds (ceil(L / 32) being the
\* least n with 32 n >= L); for L = 32 the result is T(1)
C39_HkdfIsExpandPrefix ==
  hpc = "returned" =>
    /\ Len(okm) = hkdfArgs.length
    /\ \A k \in 1..hkdfArgs.length : okm[k] = ClaimedByte(hkdfArgs, k)
    /\ 32 * RoundsRun >= hkdfArgs.length
    /\ RoundsRun > 0 => 32 * (RoundsRun - 1) < hkdfArgs.length
    /\ hkdfArgs.length = 32 =>
         okm = [k \in 1..32 |-> [of |-> ClaimedT(hkdfArgs, 1), at |-> k - 1]]

\* a call for 33 bytes returned: two rounds ran and the second block gave one
\* byte
W_C39_SecondBlockCut ==
  /\ hpc = "returned"
  /\ hkdfArgs.length = 33
  /\ RoundsRun = 2
  /\ okm[33] = [of |-> tBlock, at |-> 0]
  /\ okm[32].of # tBlock

====
